---- MODULE Spec2Model ----
(***************************************************************************)
(* A model of seashell-core: the layered account store (AccountsDb), the   *)
(* scenario overlay (Scenario), the system-variable cache (Sysvars), the   *)
(* instruction-account compiler (compile_accounts_for_instruction) and the *)
(* orchestrator (Seashell).                                                *)
(*                                                                         *)
(* Pubkeys are strings, account data is a sequence of small numbers        *)
(* ("bytes"), an Option<T> is a sequence of length 0 (None) or 1 (Some),   *)
(* and a HashMap is a function whose DOMAIN is its key set.  All indices   *)
(* are 0-based as in the source; sequences are 1-based, so the element at  *)
(* index i of a Vec v is v[i + 1].                                         *)
(***************************************************************************)
EXTENDS Integers, Sequences, FiniteSets, TLC

VARIABLES
    accounts,   \* AccountsDb.accounts: the base map Pubkey -> AccountSharedData
    scenario,   \* AccountsDb.scenario: the Scenario overlay
    sysvars,    \* AccountsDb.sysvars: one typed field per system variable
    programs,   \* AccountsDb.programs: the program cache, id -> entry
    config,     \* Seashell.config
    files,      \* the file system: scenario path -> file content
    rpcCalls,   \* the get_account calls the current overlay made, per pubkey
    phase,      \* "live", "panicked" (unwinding), "dropped", or "pure"
    ixn,        \* the instruction under compilation (pure specification)
    result      \* the value the last call returned

vars == <<accounts, scenario, sysvars, programs, config, files, rpcCalls, phase, ixn, result>>

----------------------------------------------------------------------------
(* Bounds and input universes *)

MaxRefs == 3            \* longest instruction.accounts compiled
MaxLamports == 1        \* largest balance an input record carries
MaxBalance == 2         \* largest balance an airdrop may reach
MaxRpcCalls == 2        \* get_account calls per pubkey the model follows

U8Mod == 256            \* `as u8`

None == <<>>
Some(x) == <<x>>

\* The element of a singleton set.  The(F(x) : x \in {e}) evaluates e once and
\* names its value x in F.
The(S) == CHOOSE v \in S : TRUE

\* The seven sysvar ids Sysvars::is_sysvar recognizes.
SysvarIds ==
    {"Clock", "EpochSchedule", "EpochRewards", "Rent", "SlotHashes",
     "StakeHistory", "LastRestartSlot"}

\* Pubkey::default() is the system program id (32 zero bytes).
DefaultPubkey == "System"
SysvarOwner == "Sysvar1111"
NativeLoader == "NativeLoader"

Account(l, d, o, e, r) ==
    [lamports |-> l, data |-> d, owner |-> o, executable |-> e, rent_epoch |-> r]

\* AccountSharedData::default()
DefaultAccount == Account(0, <<>>, DefaultPubkey, FALSE, 0)

----------------------------------------------------------------------------
(* compile.rs *)

INSTRUCTION_PROGRAM_ID_INDEX == 0

\* AccountMeta and Instruction (the opaque payload bytes are left out)
Meta(k, s, w) == [pubkey |-> k, is_signer |-> s, is_writable |-> w]
Instruction(p, refs) == [program_id |-> p, accounts |-> refs]

MetasOver(keys) == {Meta(k, s, w) : k \in keys, s \in BOOLEAN, w \in BOOLEAN}
SeqsUpTo(S, n) == UNION {[1..m -> S] : m \in 0..n}

\* [program, ref_1.account, ref_2.account, ...]: every identifier the
\* instruction touches, in order and with repetitions.
FullKeyList(i) == <<i.program_id>> \o [p \in 1..Len(i.accounts) |-> i.accounts[p].pubkey]

\* The 0-based position of the first occurrence of k in list.
FirstOccurrence(list, k) ==
    (CHOOSE j \in 1..Len(list) : list[j] = k /\ \A m \in 1..(j - 1) : list[m] # k) - 1

NoInstruction == Instruction("", <<>>)
NoResult == [op |-> "none"]

\* IndexMap::get_index_of: the 0-based insertion index of key k, or -1.
GetIndexOf(map, k) ==
    LET at == {i \in 1..Len(map) : map[i].key = k} IN
    IF at = {} THEN -1
    ELSE (CHOOSE i \in at : \A j \in at : i <= j) - 1

\* A variant in which the last reference's flags replace the earlier ones.
EntryModify_Overwrite(map, m) ==
    LET i == GetIndexOf(map, m.pubkey) IN
    IF i >= 0
    THEN [map EXCEPT ![i + 1] =
            [key |-> @.key, is_signer |-> m.is_signer, is_writable |-> m.is_writable]]
    ELSE Append(map, [key |-> m.pubkey, is_signer |-> m.is_signer,
                      is_writable |-> m.is_writable])

\* entry(pubkey).and_modify(|e| e |= flags).or_insert(flags)
EntryModify(map, m) ==
    LET i == GetIndexOf(map, m.pubkey) IN
    IF i >= 0
    THEN [map EXCEPT ![i + 1] =
            [key |-> @.key,
             is_signer |-> @.is_signer \/ m.is_signer,
             is_writable |-> @.is_writable \/ m.is_writable]]
    ELSE Append(map, [key |-> m.pubkey, is_signer |-> m.is_signer,
                      is_writable |-> m.is_writable])

\* map after the loop body ran for ixn.accounts[lo..hi], in order; the range
\* is split in halves so that a long instruction does not nest deeply.
RECURSIVE AccountMapOver(_, _, _, _)
AccountMapOver(map, i, lo, hi) ==
    IF lo > hi THEN map
    ELSE IF lo = hi THEN EntryModify(map, i.accounts[lo])
    ELSE The({AccountMapOver(m, i, ((lo + hi) \div 2) + 1, hi) :
                m \in {AccountMapOver(map, i, lo, (lo + hi) \div 2)}})

\* The account_map after the loop over ixn.accounts[1..n].
AccountMapUpTo(i, n) ==
    AccountMapOver(<<[key |-> i.program_id, is_signer |-> FALSE, is_writable |-> FALSE]>>,
                   i, 1, n)

AccountMap(i) == AccountMapUpTo(i, Len(i.accounts))

\* account_indices: get_index_of(pubkey).unwrap() as u8
AccountIndices(i, map) ==
    [p \in 1..Len(i.accounts) |-> GetIndexOf(map, i.accounts[p].pubkey) % U8Mod]

\* A variant in which every entry points at its own position.
IndexInCallee_Self(indices, idx) == idx

\* account_indices.iter().take(idx).position(|x| x == global_idx).unwrap_or(idx)
IndexInCallee(indices, idx) ==
    LET earlier == {j \in 0..(idx - 1) : indices[j + 1] = indices[idx + 1]} IN
    IF earlier = {} THEN idx
    ELSE CHOOSE j \in earlier : \A k \in earlier : j <= k

\* A variant that emits one entry per distinct index, in first-seen order.
InstructionAccounts_Distinct(map, indices) ==
    LET RECURSIVE Firsts(_)
        Firsts(n) ==
            IF n = 0 THEN <<>>
            ELSE IF \E q \in 1..(n - 1) : indices[q] = indices[n] THEN Firsts(n - 1)
            ELSE Append(Firsts(n - 1), indices[n])
        distinct == Firsts(Len(indices))
    IN  [p \in 1..Len(distinct) |->
            [index_in_transaction |-> distinct[p],
             index_in_caller |-> distinct[p],
             index_in_callee |-> p - 1,
             is_signer |-> map[distinct[p] + 1].is_signer,
             is_writable |-> map[distinct[p] + 1].is_writable]]

InstructionAccounts(map, indices) ==
    [p \in 1..Len(indices) |->
        [index_in_transaction |-> indices[p],
         index_in_caller |-> indices[p],
         index_in_callee |-> IndexInCallee(indices, p - 1),
         is_signer |-> map[indices[p] + 1].is_signer,
         is_writable |-> map[indices[p] + 1].is_writable]]

compile_accounts_for_instruction(i) ==
    The({InstructionAccounts(map, AccountIndices(i, map)) : map \in {AccountMap(i)}})

----------------------------------------------------------------------------
(* sysvar.rs *)

\* A variant of is_sysvar that also recognizes the deprecated Fees variable.
is_sysvar_WithFees(id) == id \in SysvarIds \cup {"Fees"}

\* Sysvars::is_sysvar
is_sysvar(id) == id \in SysvarIds

\* The length of the bincode encoding of a typed field, scaled down to one byte.
SysvarEncodedLen(id) == 1

\* bincode::deserialize::<T>(data): reads the typed value from the front of
\* data and ignores trailing bytes; an Err (None) when data is too short.
Deserialize(id, data) ==
    IF Len(data) >= SysvarEncodedLen(id)
    THEN Some([value |-> data[1]])
    ELSE None

\* bincode::serialize(&T): the encoding of a typed value.
Serialize(field) == <<field.value>>

\* bincode::serialize(&Vec<u8>): a length prefix, then the bytes.
SerializeBytes(bytes) == <<Len(bytes)>> \o bytes

\* Sysvars::default(): every typed field holds its default value.
DefaultSysvars == [id \in SysvarIds |-> [value |-> 0]]

\* A variant of get that funds the record it builds with one lamport.
SysvarsGet_Funded(sv, id) ==
    IF id = "EpochRewards"
    THEN Account(1, SerializeBytes(Serialize(sv[id])), SysvarOwner, FALSE, 0)
    ELSE Account(1, Serialize(sv[id]), SysvarOwner, FALSE, 0)

\* Sysvars::get: AccountSharedData::new_data(0, &field, &SYSVAR); for
\* EpochRewards the state handed to new_data is the already serialized Vec<u8>.
SysvarsGet(sv, id) ==
    IF id = "EpochRewards"
    THEN Account(0, SerializeBytes(Serialize(sv[id])), SysvarOwner, FALSE, 0)
    ELSE Account(0, Serialize(sv[id]), SysvarOwner, FALSE, 0)

\* Sysvars::get as its callers see it: [err, out]; the last match arm panics.
SysvarsGetOrPanic(sv, id) ==
    IF id \in SysvarIds
    THEN [err |-> "", out |-> Some(SysvarsGet(sv, id))]
    ELSE [err |-> "UnknownSystemVariable", out |-> None]

\* A variant of set that falls back to the default value on malformed data.
SysvarsSet_DefaultOnError(sv, id, account) ==
    IF id \notin SysvarIds
    THEN [err |-> "UnknownSystemVariable", sysvars |-> sv]
    ELSE LET d == Deserialize(id, account.data) IN
         [err |-> "",
          sysvars |-> [sv EXCEPT ![id] = IF d = None THEN DefaultSysvars[id] ELSE d[1]]]

\* Sysvars::set: [err, sysvars]; unwrap() panics on malformed data.
SysvarsSet(sv, id, account) ==
    IF id \notin SysvarIds
    THEN [err |-> "UnknownSystemVariable", sysvars |-> sv]
    ELSE LET d == Deserialize(id, account.data) IN
         IF d = None
         THEN [err |-> "InvalidSystemVariableEncoding", sysvars |-> sv]
         ELSE [err |-> "", sysvars |-> [sv EXCEPT ![id] = d[1]]]

----------------------------------------------------------------------------
(* scenario.rs *)

EmptyMap == <<>>

MapInsert(m, k, v) == [x \in (DOMAIN m) \cup {k} |-> IF x = k THEN v ELSE m[x]]

\* The one path load_scenario derives from the scenario name.
ScenarioPath == "scenarios/test.json.gz"

\* What the remote source answers: get_account errs on every other pubkey.
RemoteAccounts == [k \in {"B"} |-> Account(MaxLamports, <<2>>, DefaultPubkey, FALSE, 0)]

\* Scenario::default()
DefaultScenario ==
    [should_persist |-> FALSE, dirty |-> FALSE, data |-> EmptyMap,
     path |-> None, rpc_client |-> FALSE]

\* A variant that writes a byte below 16 as one digit, without the leading 0.
HexEncode_NoPad(bytes) ==
    IF bytes = <<>> THEN <<>>
    ELSE (IF bytes[1] < 16 THEN <<bytes[1]>> ELSE <<bytes[1] \div 16, bytes[1] % 16>>)
         \o [i \in 1..(2 * (Len(bytes) - 1)) |->
                IF i % 2 = 1 THEN bytes[(i + 3) \div 2] \div 16 ELSE bytes[(i + 2) \div 2] % 16]

\* serde_with::hex::Hex: two hexadecimal digits per byte.
HexEncode(bytes) ==
    [i \in 1..(2 * Len(bytes)) |->
        IF i % 2 = 1 THEN bytes[(i + 1) \div 2] \div 16 ELSE bytes[i \div 2] % 16]

HexDecode(digits) ==
    [i \in 1..(Len(digits) \div 2) |-> 16 * digits[2 * i - 1] + digits[2 * i]]

\* From<Account> for JsonAccount, as serialized.
ToJsonAccount(a) ==
    [lamports |-> a.lamports, data |-> HexEncode(a.data), owner |-> a.owner,
     executable |-> a.executable, rent_epoch |-> a.rent_epoch]

\* #[serde(default)]: the field's value, or the type's default when the JSON
\* object has no such field.
SerdeDefault(j, field, default) == IF field \in DOMAIN j THEN j[field] ELSE default

\* From<JsonAccount> for Account, as deserialized: lamports, executable and
\* rent_epoch are #[serde(default)].
FromJsonAccount(j) ==
    Account(SerdeDefault(j, "lamports", 0), HexDecode(j.data), j.owner,
            SerdeDefault(j, "executable", FALSE), SerdeDefault(j, "rent_epoch", 0))

\* SerializableScenario as written by try_write_json_gz.
SerializeScenario(data) == [k \in DOMAIN data |-> ToJsonAccount(data[k])]

\* read_json_gz and the conversion back to AccountSharedData.
DeserializeScenario(content) == [k \in DOMAIN content |-> FromJsonAccount(content[k])]

\* serde_with::hex::Hex on reading: an even number of hexadecimal digits.
HexValid(digits) ==
    /\ Len(digits) % 2 = 0
    /\ \A i \in 1..Len(digits) : digits[i] \in 0..15

\* A variant of the decoder in which no field of JsonAccount has a default.
Decodes_AllRequired(content) ==
    \A k \in DOMAIN content :
        /\ {"lamports", "data", "owner", "executable", "rent_epoch"} \subseteq DOMAIN content[k]
        /\ HexValid(content[k].data)

\* read_json_gz: serde_json::from_reader(bytes) is Ok on this content; data
\* and owner are the fields of JsonAccount without a default.
Decodes(content) ==
    \A k \in DOMAIN content :
        /\ {"data", "owner"} \subseteq DOMAIN content[k]
        /\ HexValid(content[k].data)

\* A file read_json_gz cannot decode: its one record has a hex string with an
\* odd number of digits.  A file cut short by a failed write reads the same way.
UndecodableFile ==
    [k \in {"A"} |-> [lamports |-> 0, data |-> <<1>>, owner |-> DefaultPubkey,
                      executable |-> FALSE, rent_epoch |-> 0]]

\* A variant of the load that does not check the hex strings: it fails only on
\* a record without data or owner and decodes the digits it can.
from_file_err_Lenient(fs, path) ==
    IF fs[path] # None
       /\ ~(\A k \in DOMAIN fs[path][1] : {"data", "owner"} \subseteq DOMAIN fs[path][1][k])
    THEN "ScenarioDecodeFailed" ELSE ""

\* Scenario::from_file: "" or the panic of read_json_gz's unwrap() on a file
\* that exists (path.exists()) and cannot be decoded.
from_file_err(fs, path) ==
    IF fs[path] # None /\ ~Decodes(fs[path][1]) THEN "ScenarioDecodeFailed" ELSE ""

\* Scenario::from_file: fs is the file system (path -> None | Some(content)).
from_file(fs, path) ==
    [should_persist |-> TRUE, dirty |-> FALSE,
     data |-> IF fs[path] # None THEN DeserializeScenario(fs[path][1]) ELSE EmptyMap,
     path |-> Some(path), rpc_client |-> FALSE]

\* Scenario::from_file_with_rpc
from_file_with_rpc(fs, path) == [from_file(fs, path) EXCEPT !.rpc_client = TRUE]

\* Scenario::rpc_only
rpc_only ==
    [should_persist |-> FALSE, dirty |-> FALSE, data |-> EmptyMap,
     path |-> None, rpc_client |-> TRUE]

\* Scenario::get
ScenarioGet(sc, id) == IF id \in DOMAIN sc.data THEN Some(sc.data[id]) ELSE None

\* Scenario::get as a call on &self: what it returns and the overlay it leaves
\* ([out, called, scenario]); it only takes the read lock on data.
ScenarioGetEffect(sc, id) ==
    [out |-> ScenarioGet(sc, id), called |-> FALSE, scenario |-> sc]

\* A variant of insert that stores the record without marking the overlay.
ScenarioInsert_Clean(sc, id, account) ==
    [sc EXCEPT !.data = MapInsert(sc.data, id, account)]

\* Scenario::insert
ScenarioInsert(sc, id, account) ==
    [sc EXCEPT !.dirty = TRUE, !.data = MapInsert(sc.data, id, account)]

\* A variant that marks the overlay dirty before the remote call is made.
fetch_from_rpc_DirtyFirst(sc, id) ==
    IF ~sc.rpc_client
    THEN [err |-> "AccountNotFound", out |-> None, called |-> FALSE,
          scenario |-> [sc EXCEPT !.dirty = TRUE]]
    ELSE IF id \notin DOMAIN RemoteAccounts
    THEN [err |-> "RemoteFetchFailed", out |-> None, called |-> TRUE,
          scenario |-> [sc EXCEPT !.dirty = TRUE]]
    ELSE [err |-> "", out |-> Some(RemoteAccounts[id]), called |-> TRUE,
          scenario |-> ScenarioInsert(sc, id, RemoteAccounts[id])]

\* A variant that returns the fetched record without storing it.
fetch_from_rpc_NoStore(sc, id) ==
    IF ~sc.rpc_client
    THEN [err |-> "AccountNotFound", out |-> None, called |-> FALSE, scenario |-> sc]
    ELSE IF id \notin DOMAIN RemoteAccounts
    THEN [err |-> "RemoteFetchFailed", out |-> None, called |-> TRUE, scenario |-> sc]
    ELSE [err |-> "", out |-> Some(RemoteAccounts[id]), called |-> TRUE, scenario |-> sc]

\* Scenario::fetch_from_rpc: [err, out, called, scenario]; the two expect()s
\* panic before anything is stored.  called: get_account was invoked.
fetch_from_rpc(sc, id) ==
    IF ~sc.rpc_client
    THEN [err |-> "AccountNotFound", out |-> None, called |-> FALSE, scenario |-> sc]
    ELSE IF id \notin DOMAIN RemoteAccounts
    THEN [err |-> "RemoteFetchFailed", out |-> None, called |-> TRUE, scenario |-> sc]
    ELSE [err |-> "", out |-> Some(RemoteAccounts[id]), called |-> TRUE,
          scenario |-> [sc EXCEPT !.dirty = TRUE,
                                  !.data = MapInsert(sc.data, id, RemoteAccounts[id])]]

\* A variant of Drop that persists whenever a path is configured.
DropWrites_Always(sc) == sc.path # None

\* impl Drop for Scenario: whether try_write_json_gz is called.
DropWrites(sc) == sc.dirty /\ sc.should_persist /\ sc.path # None

\* What the file system does to a write: it succeeds, open() fails, or the
\* writer fails after open() truncated the file.
IoOutcomes == {"ok", "open_failed", "write_failed"}

\* A variant of the writer that unwraps the two results.
try_write_json_gz_Unwrap(fs, path, data, io) ==
    IF io = "open_failed" THEN [err |-> "WriteFailed", fs |-> fs]
    ELSE IF io = "write_failed"
    THEN [err |-> "WriteFailed", fs |-> [fs EXCEPT ![path] = Some(UndecodableFile)]]
    ELSE [err |-> "", fs |-> [fs EXCEPT ![path] = Some(SerializeScenario(data))]]

\* try_write_json_gz: [err, fs]; both failures are printed to stderr.
try_write_json_gz(fs, path, data, io) ==
    IF io = "open_failed" THEN [err |-> "", fs |-> fs]
    ELSE IF io = "write_failed"
    THEN [err |-> "", fs |-> [fs EXCEPT ![path] = Some(UndecodableFile)]]
    ELSE [err |-> "", fs |-> [fs EXCEPT ![path] = Some(SerializeScenario(data))]]

\* impl Drop for Scenario under the file system's outcome io: [err, fs].
DropScenarioIO(fs, sc, io) ==
    IF DropWrites(sc)
    THEN try_write_json_gz(fs, sc.path[1], sc.data, io)
    ELSE [err |-> "", fs |-> fs]

\* impl Drop for Scenario: the file system after the overlay is dropped, when
\* its write succeeds.
DropScenario(fs, sc) == DropScenarioIO(fs, sc, "ok").fs

----------------------------------------------------------------------------
(* accounts_db.rs *)

\* An AccountsDb value: the fields the operations below read and write.
Db(acc, sc, sv, pr) == [accounts |-> acc, scenario |-> sc, sysvars |-> sv, programs |-> pr]

\* A variant that consults the generic maps before the sysvar cache.
account_maybe_MapsFirst(db, id) ==
    IF id \in DOMAIN db.scenario.data THEN Some(db.scenario.data[id])
    ELSE IF id \in DOMAIN db.accounts THEN Some(db.accounts[id])
    ELSE IF is_sysvar(id) THEN Some(SysvarsGet(db.sysvars, id))
    ELSE None

\* AccountsDb::account_maybe
account_maybe(db, id) ==
    IF is_sysvar(id) THEN Some(SysvarsGet(db.sysvars, id))
    ELSE IF ScenarioGet(db.scenario, id) # None THEN ScenarioGet(db.scenario, id)
    ELSE IF id \in DOMAIN db.accounts THEN Some(db.accounts[id])
    ELSE None

\* A variant that asks the remote source before looking at the base map.
account_RemoteBeforeBase(db, id) ==
    IF is_sysvar(id) \/ ScenarioGet(db.scenario, id) # None
    THEN [err |-> "", out |-> account_maybe(db, id), called |-> FALSE, db |-> db]
    ELSE LET f == fetch_from_rpc(db.scenario, id) IN
         IF f.err = ""
         THEN [err |-> "", out |-> f.out, called |-> TRUE,
               db |-> [db EXCEPT !.scenario = f.scenario]]
         ELSE IF id \in DOMAIN db.accounts
         THEN [err |-> "", out |-> Some(db.accounts[id]), called |-> f.called, db |-> db]
         ELSE [err |-> f.err, out |-> None, called |-> f.called, db |-> db]

\* AccountsDb::account: [err, out, called, db]
account(db, id) ==
    IF account_maybe(db, id) # None
    THEN [err |-> "", out |-> account_maybe(db, id), called |-> FALSE, db |-> db]
    ELSE The({[err |-> f.err, out |-> f.out, called |-> f.called,
               db |-> [db EXCEPT !.scenario = f.scenario]] :
                f \in {fetch_from_rpc(db.scenario, id)}})

\* A variant of the optional lookup that falls back to the remote source, as
\* AccountsDb::account does.
AccountMaybeEffect_Fetch(db, id) ==
    The({[out |-> r.out, called |-> r.called, db |-> r.db] : r \in {account(db, id)}})

\* AccountsDb::account_maybe as a call on &self: what it returns and the store
\* it leaves ([out, called, db]); Sysvars::get, Scenario::get and HashMap::get
\* only read.
AccountMaybeEffect(db, id) ==
    [out |-> account_maybe(db, id), called |-> FALSE, db |-> db]

\* The historical write path: always into the generic map.
set_account_NoSysvarCheck(db, id, a) ==
    [err |-> "", db |-> [db EXCEPT !.accounts = MapInsert(db.accounts, id, a)]]

\* AccountsDb::set_account: [err, db]
set_account(db, id, a) ==
    IF is_sysvar(id)
    THEN LET s == SysvarsSet(db.sysvars, id, a) IN
         [err |-> s.err, db |-> [db EXCEPT !.sysvars = s.sysvars]]
    ELSE [err |-> "", db |-> [db EXCEPT !.accounts = MapInsert(db.accounts, id, a)]]

\* AccountsDb::set_accounts: the updates in order, stopping at the first panic.
RECURSIVE set_accounts(_, _)
set_accounts(db, updates) ==
    IF updates = <<>> THEN [err |-> "", db |-> db]
    ELSE The({IF s.err # "" THEN s ELSE set_accounts(s.db, Tail(updates)) :
                s \in {set_account(db, updates[1][1], updates[1][2])}})

\* mock_account_shared_data and AccountsDb::set_account_mock
set_account_mock(db, id) == set_account(db, id, Account(0, <<>>, id, FALSE, 0))

\* A variant that resolves every distinct identifier once.
accounts_for_instruction_Dedup(db, allow_uninitialized_accounts, i) ==
    LET keys == FullKeyList(i)
        firsts == {p \in 1..Len(keys) : \A q \in 1..(p - 1) : keys[q] # keys[p]}
        pos[n \in 0..Len(keys)] ==
            IF n = 0 THEN <<>>
            ELSE IF n \in firsts THEN Append(pos[n - 1], n) ELSE pos[n - 1]
    IN  [err |-> "", called |-> <<>>, db |-> db,
         out |-> [j \in 1..Len(pos[Len(keys)]) |->
                    <<keys[pos[Len(keys)][j]],
                      IF account_maybe(db, keys[pos[Len(keys)][j]]) # None
                      THEN account_maybe(db, keys[pos[Len(keys)][j]])[1]
                      ELSE DefaultAccount>>]]

\* accounts_for_instruction: the entry for the program id.
ResolveProgram(r, program_id) ==
    [err |-> r.err, db |-> r.db,
     called |-> IF r.called THEN <<program_id>> ELSE <<>>,
     out |-> IF r.err = "" THEN <<<<program_id, r.out[1]>>>> ELSE <<>>]

\* A variant that ignores allow_uninitialized_accounts for a missing account.
ResolveOrDefault_Fail(prev, pubkey, m) ==
    IF m # None THEN [prev EXCEPT !.out = Append(@, <<pubkey, m[1]>>)]
    ELSE [prev EXCEPT !.err = "AccountNotFound"]

\* accounts_for_instruction: the closure body for one reference, when
\* uninitialized accounts are allowed (m: what account_maybe returned).
ResolveOrDefault(prev, pubkey, m) ==
    [prev EXCEPT !.out = Append(@, <<pubkey, IF m # None THEN m[1] ELSE DefaultAccount>>)]

\* accounts_for_instruction: the closure body for one reference, otherwise
\* (r: what account returned).
ResolveRequired(prev, pubkey, r) ==
    [err |-> r.err, db |-> r.db,
     called |-> IF r.called THEN Append(prev.called, pubkey) ELSE prev.called,
     out |-> IF r.err = "" THEN Append(prev.out, <<pubkey, r.out[1]>>) ELSE prev.out]

\* A variant that resolves every reference as a required one.
ResolveReference_Required(prev, allow_uninitialized_accounts, pubkey) ==
    IF prev.err # "" THEN prev
    ELSE The({ResolveRequired(prev, pubkey, r) : r \in {account(prev.db, pubkey)}})

ResolveReference(prev, allow_uninitialized_accounts, pubkey) ==
    IF prev.err # "" THEN prev
    ELSE IF allow_uninitialized_accounts
    THEN The({ResolveOrDefault(prev, pubkey, m) : m \in {account_maybe(prev.db, pubkey)}})
    ELSE The({ResolveRequired(prev, pubkey, r) : r \in {account(prev.db, pubkey)}})

\* AccountsDb::accounts_for_instruction, after the program id and the first n
\* references: [err, out, called, db].  out is the Vec<TransactionAccount>,
\* called the pubkeys get_account was invoked for, in order.
RECURSIVE AccountsForInstructionUpTo(_, _, _, _)
AccountsForInstructionUpTo(db, allow_uninitialized_accounts, i, n) ==
    IF n = 0
    THEN The({ResolveProgram(r, i.program_id) : r \in {account(db, i.program_id)}})
    ELSE The({ResolveReference(prev, allow_uninitialized_accounts, i.accounts[n].pubkey) :
                prev \in {AccountsForInstructionUpTo(db, allow_uninitialized_accounts, i, n - 1)}})

accounts_for_instruction(db, allow_uninitialized_accounts, i) ==
    AccountsForInstructionUpTo(db, allow_uninitialized_accounts, i, Len(i.accounts))

\* The variables SysvarCache::fill_missing_entries asks the callback for: the
\* seven recognized ones and the deprecated Fees variable.
WellKnownSysvars == SysvarIds \cup {"Fees"}

\* A variant in which the store's own value wins over the instruction's.
sysvars_for_instruction_StoreFirst(db, accs) ==
    [sysvar \in WellKnownSysvars |->
        IF account_maybe(db, sysvar) # None THEN account_maybe(db, sysvar)[1].data
        ELSE IF \E t \in 1..Len(accs) : accs[t][1] = sysvar
        THEN accs[FirstOccurrence([t \in 1..Len(accs) |-> accs[t][1]], sysvar) + 1][2].data
        ELSE <<>>]

\* AccountsDb::sysvars_for_instruction: for each variable asked for, the data
\* the callback hands to set_sysvar.
sysvars_for_instruction(db, accs) ==
    [sysvar \in WellKnownSysvars |->
        IF \E t \in 1..Len(accs) : accs[t][1] = sysvar
        THEN accs[FirstOccurrence([t \in 1..Len(accs) |-> accs[t][1]], sysvar) + 1][2].data
        ELSE IF account_maybe(db, sysvar) # None THEN account_maybe(db, sysvar)[1].data
        ELSE <<>>]

\* solana_builtins::BUILTINS: one builtin without an enabling feature and one
\* behind a feature.
Builtins ==
    <<[program_id |-> "P", enable_feature_id |-> None],
      [program_id |-> "G", enable_feature_id |-> Some("FeatureG")]>>

\* FeatureSet::all_enabled()
AllFeatures == {b.enable_feature_id[1] : b \in {Builtins[i] : i \in DOMAIN Builtins} \ {x \in {Builtins[i] : i \in DOMAIN Builtins} : x.enable_feature_id = None}}

\* AccountSharedData::new(1, 0, &native_loader::id()) with executable set
BuiltinAccount == Account(1, <<>>, NativeLoader, TRUE, 0)

\* ProgramCacheEntry::new_builtin(0, name.len(), entrypoint)
BuiltinEntry == [loader |-> NativeLoader, deployment_slot |-> 0, effective_slot |-> 0]

\* ProgramCacheForTxBatch::replenish
Replenish(programs_, id, entry) == MapInsert(programs_, id, entry)

\* builtin.enable_feature_id.is_none_or(|feature_id| feature_set.is_active(&feature_id))
BuiltinEnabled(b, feature_set) ==
    b.enable_feature_id = None \/ b.enable_feature_id[1] \in feature_set

\* AccountsDb::load_builtins: the loop over BUILTINS[1..n]
RECURSIVE LoadBuiltinsUpTo(_, _, _)
LoadBuiltinsUpTo(db, feature_set, n) ==
    IF n = 0 THEN db
    ELSE LET d == LoadBuiltinsUpTo(db, feature_set, n - 1)
             b == Builtins[n]
         IN  IF BuiltinEnabled(b, feature_set)
             THEN set_account([d EXCEPT !.programs = Replenish(@, b.program_id, BuiltinEntry)],
                              b.program_id, BuiltinAccount).db
             ELSE d

\* A variant that loads every builtin, whatever the feature set.
load_builtins_All(db, feature_set) == LoadBuiltinsUpTo(db, AllFeatures, Len(Builtins))

load_builtins(db, feature_set) == LoadBuiltinsUpTo(db, feature_set, Len(Builtins))

\* Rent::minimum_balance(data_len):
\* (ACCOUNT_STORAGE_OVERHEAD + data_len) * lamports_per_byte_year * exemption_threshold
ACCOUNT_STORAGE_OVERHEAD == 128
EXEMPTION_THRESHOLD == 2
minimum_balance(rent, data_len) ==
    (ACCOUNT_STORAGE_OVERHEAD + data_len) * rent.value * EXEMPTION_THRESHOLD

\* AccountSharedData::new(lamports, space, owner): space zero bytes of data.
Zeros(space) == [i \in 1..space |-> 0]

\* ProgramCacheEntry::new(..) is Ok: the loader accepts the image.  An image
\* is accepted when it starts with the first byte of the ELF magic.
ElfLoads(bytes) == Len(bytes) >= 1 /\ bytes[1] = 127

\* ProgramCacheEntry::new(&loader, env, current_slot, current_slot, bytes, ..)
ProgramEntry(loader, slot) ==
    [loader |-> loader, deployment_slot |-> slot, effective_slot |-> slot]

\* A variant that writes the account before the image is verified.
load_program_from_bytes_with_loader_AccountFirst(db, id, bytes, loader) ==
    LET acct == Account(minimum_balance(db.sysvars["Rent"], Len(bytes)),
                        Zeros(Len(bytes)), loader, TRUE, 0)
        w == set_account(db, id, acct)
    IN  IF w.err # "" THEN [err |-> w.err, db |-> db]
        ELSE IF ~ElfLoads(bytes) THEN [err |-> "ProgramLoadFailed", db |-> w.db]
        ELSE [err |-> "",
              db |-> [w.db EXCEPT !.programs =
                         Replenish(@, id, ProgramEntry(loader, db.sysvars["Clock"].value))]]

\* AccountsDb::load_program_from_bytes_with_loader: [err, db]; the expect() on
\* ProgramCacheEntry::new panics before anything is written.
load_program_from_bytes_with_loader(db, id, bytes, loader) ==
    LET current_slot == db.sysvars["Clock"].value
        acct == Account(minimum_balance(db.sysvars["Rent"], Len(bytes)),
                        Zeros(Len(bytes)), loader, TRUE, 0)
    IN  IF ~ElfLoads(bytes) THEN [err |-> "ProgramLoadFailed", db |-> db]
        ELSE The({IF w.err # "" THEN [err |-> w.err, db |-> db]
                  ELSE [err |-> "",
                        db |-> [w.db EXCEPT !.programs =
                                   Replenish(@, id, ProgramEntry(loader, current_slot))]] :
                    w \in {set_account(db, id, acct)}})

\* Seashell::load_program_from_bytes: the loader is bpf_loader::id().
BpfLoader == "BPFLoader2"

\* Seashell::load_program_from_environment, the loop over the first n entries
\* of the program directory: [panic, db].  An entry is [stem, ext, bytes].
RECURSIVE LoadFromEntriesUpTo(_, _, _, _, _)
LoadFromEntriesUpTo(db, entries, program_name, id, n) ==
    IF n = 0 THEN [panic |-> "", db |-> db]
    ELSE The({IF before.panic # "" THEN before
              ELSE IF entries[n].ext = "so" /\ entries[n].stem = program_name
              THEN The({[panic |-> l.err, db |-> l.db] :
                          l \in {load_program_from_bytes_with_loader(
                                    before.db, id, entries[n].bytes, BpfLoader)}})
              ELSE before :
                before \in {LoadFromEntriesUpTo(db, entries, program_name, id, n - 1)}})

\* Seashell::load_program_from_environment: [ret, panic, db].  dir is what
\* read_dir finds under SBF_OUT_DIR or target/deploy: None when the directory
\* cannot be read, else its entries.  ret is the returned Result.
load_program_from_environment(db, dir, program_name, id) ==
    IF dir = None THEN [ret |-> "Err", panic |-> "", db |-> db]
    ELSE The({[ret |-> IF r.panic = "" THEN "Ok" ELSE "", panic |-> r.panic, db |-> r.db] :
                r \in {LoadFromEntriesUpTo(db, dir[1], program_name, id, Len(dir[1]))}})

----------------------------------------------------------------------------
(* seashell.rs: the session *)

Pubkeys == {"P", "A", "B", "Clock"}

\* Config::default()
DefaultConfig == [memoize |-> FALSE, allow_uninitialized_accounts |-> FALSE]

\* AccountsDb::default()
DefaultDb == Db(EmptyMap, DefaultScenario, DefaultSysvars, EmptyMap)

\* Seashell::new(): the default session with the builtins loaded.
NewDb == load_builtins(DefaultDb, AllFeatures)

NoRpcCalls == [k \in Pubkeys |-> 0]

CurDb == Db(accounts, scenario, sysvars, programs)

\* The records callers hand to set_account and Scenario::insert.
InputData == {<<>>, <<1>>}
InputRecords ==
    {Account(l, d, DefaultPubkey, FALSE, 0) : l \in 0..MaxLamports, d \in InputData}

\* The session as Seashell::new_with_config(cfg) leaves it, on file system fs.
InitSession(cfg, fs) ==
    /\ accounts = NewDb.accounts
    /\ scenario = NewDb.scenario
    /\ sysvars = NewDb.sysvars
    /\ programs = NewDb.programs
    /\ config = cfg
    /\ files = fs
    /\ rpcCalls = NoRpcCalls
    /\ phase = "live"
    /\ ixn = NoInstruction
    /\ result = NoResult

Init == InitSession(DefaultConfig, [p \in {ScenarioPath} |-> None])

Live(err) == IF err = "" THEN "live" ELSE "panicked"

\* Seashell::set_account / AccountsDb::set_account
SetAccountCall(id, a) ==
    /\ phase = "live"
    /\ \E r \in {set_account(CurDb, id, a)} :
       /\ accounts' = r.db.accounts
       /\ sysvars' = r.db.sysvars
       /\ phase' = Live(r.err)
       /\ result' = [op |-> "set_account", id |-> id, account |-> a, err |-> r.err]
    /\ UNCHANGED <<scenario, programs, config, files, rpcCalls, ixn>>

\* u64::MAX, scaled down to the largest balance the model follows.
U64Max == MaxBalance

\* Seashell::airdrop: [err, db].  account.lamports() + amount is a u64
\* addition: past u64::MAX it panics in a build with overflow checks and wraps
\* in a build without (wraps).
airdrop(db, id, amount, wraps) ==
    LET m == account_maybe(db, id)
        old == IF m # None THEN m[1] ELSE Account(0, <<>>, DefaultPubkey, FALSE, 0)
        sum == old.lamports + amount
    IN  IF sum <= U64Max THEN set_account(db, id, [old EXCEPT !.lamports = sum])
        ELSE IF wraps THEN set_account(db, id, [old EXCEPT !.lamports = sum - (U64Max + 1)])
        ELSE [err |-> "AddOverflow", db |-> db]

\* Seashell::airdrop with any 64-bit amount
AirdropU64Call(id, amount, wraps) ==
    /\ phase = "live"
    /\ \E r \in {airdrop(CurDb, id, amount, wraps)} :
       /\ accounts' = r.db.accounts
       /\ sysvars' = r.db.sysvars
       /\ phase' = Live(r.err)
       /\ result' = [op |-> "airdrop", id |-> id, amount |-> amount, err |-> r.err]
    /\ UNCHANGED <<scenario, programs, config, files, rpcCalls, ixn>>

\* Seashell::airdrop with an amount the balance can take
AirdropCall(id, amount) ==
    /\ LET m == account_maybe(CurDb, id)
           old == IF m # None THEN m[1] ELSE Account(0, <<>>, DefaultPubkey, FALSE, 0)
       IN  old.lamports + amount <= MaxBalance
    /\ AirdropU64Call(id, amount, FALSE)

\* Scenario::insert on the session's overlay
ScenarioInsertCall(id, a) ==
    /\ phase = "live"
    /\ scenario' = ScenarioInsert(scenario, id, a)
    /\ result' = [op |-> "scenario_insert", id |-> id, account |-> a, err |-> ""]
    /\ UNCHANGED <<accounts, sysvars, programs, config, files, rpcCalls, phase, ixn>>

\* AccountsDb::account_maybe
AccountMaybeCall(id) ==
    /\ phase = "live"
    /\ \E r \in {AccountMaybeEffect(CurDb, id)} :
       /\ r.called => rpcCalls[id] < MaxRpcCalls
       /\ accounts' = r.db.accounts
       /\ scenario' = r.db.scenario
       /\ sysvars' = r.db.sysvars
       /\ programs' = r.db.programs
       /\ rpcCalls' = IF r.called THEN [rpcCalls EXCEPT ![id] = @ + 1] ELSE rpcCalls
       /\ result' = [op |-> "account_maybe", id |-> id, out |-> r.out, err |-> ""]
    /\ UNCHANGED <<config, files, phase, ixn>>

\* Scenario::get on the session's overlay
ScenarioGetCall(id) ==
    /\ phase = "live"
    /\ \E r \in {ScenarioGetEffect(scenario, id)} :
       /\ r.called => rpcCalls[id] < MaxRpcCalls
       /\ scenario' = r.scenario
       /\ rpcCalls' = IF r.called THEN [rpcCalls EXCEPT ![id] = @ + 1] ELSE rpcCalls
       /\ result' = [op |-> "scenario_get", id |-> id, out |-> r.out, err |-> ""]
    /\ UNCHANGED <<accounts, sysvars, programs, config, files, phase, ixn>>

\* Seashell::account / AccountsDb::account
AccountCall(id) ==
    /\ phase = "live"
    /\ \E r \in {account(CurDb, id)} :
       /\ r.called => rpcCalls[id] < MaxRpcCalls
       /\ scenario' = r.db.scenario
       /\ rpcCalls' = IF r.called THEN [rpcCalls EXCEPT ![id] = @ + 1] ELSE rpcCalls
       /\ phase' = Live(r.err)
       /\ result' = [op |-> "account", id |-> id, out |-> r.out, err |-> r.err]
    /\ UNCHANGED <<accounts, sysvars, programs, config, files, ixn>>

\* Seashell::load_scenario: the new overlay is built from the file first, then
\* the assignment drops the overlay it replaces.  rpc: RPC_URL is set.
\* io: the outcome of the write the dropped overlay attempts, if it attempts one.
LoadScenarioIO(rpc, io) ==
    /\ phase = "live"
    /\ io # "ok" => DropWrites(scenario)
    /\ \E e \in {from_file_err(files, ScenarioPath)} :
       IF e # ""
       THEN /\ io = "ok"
            /\ phase' = "panicked"
            /\ result' = [op |-> "load_scenario", rpc |-> rpc, io |-> io, err |-> e]
            /\ UNCHANGED <<scenario, files, rpcCalls>>
       ELSE \E w \in {DropScenarioIO(files, scenario, io)} :
            /\ scenario' = IF rpc THEN from_file_with_rpc(files, ScenarioPath)
                           ELSE from_file(files, ScenarioPath)
            /\ files' = w.fs
            /\ rpcCalls' = NoRpcCalls
            /\ phase' = Live(w.err)
            /\ result' = [op |-> "load_scenario", rpc |-> rpc, io |-> io, err |-> w.err]
    /\ UNCHANGED <<accounts, sysvars, programs, config, ixn>>

LoadScenario(rpc) == LoadScenarioIO(rpc, "ok")

\* accounts_db.scenario = Scenario::rpc_only(url)
UseRpcOnlyIO(io) ==
    /\ phase = "live"
    /\ io # "ok" => DropWrites(scenario)
    /\ \E w \in {DropScenarioIO(files, scenario, io)} :
       /\ scenario' = rpc_only
       /\ files' = w.fs
       /\ rpcCalls' = NoRpcCalls
       /\ phase' = Live(w.err)
       /\ result' = [op |-> "rpc_only", io |-> io, err |-> w.err]
    /\ UNCHANGED <<accounts, sysvars, programs, config, ixn>>

UseRpcOnly == UseRpcOnlyIO("ok")

\* The session goes out of scope, or a panic unwinds it: the overlay is dropped.
\* A panic inside drop would abort the process.
DropSessionIO(io) ==
    /\ phase \in {"live", "panicked"}
    /\ io # "ok" => DropWrites(scenario)
    /\ \E w \in {DropScenarioIO(files, scenario, io)} :
       /\ files' = w.fs
       /\ phase' = IF w.err = "" THEN "dropped" ELSE "aborted"
       /\ result' = [op |-> "drop", io |-> io, err |-> w.err]
    /\ UNCHANGED <<accounts, scenario, sysvars, programs, config, rpcCalls, ixn>>

DropSession == DropSessionIO("ok")

\* A later session on the same file system: Seashell::new_with_config(cfg).
NewSession(cfg) ==
    /\ phase = "dropped"
    /\ accounts' = NewDb.accounts
    /\ scenario' = NewDb.scenario
    /\ sysvars' = NewDb.sysvars
    /\ programs' = NewDb.programs
    /\ config' = cfg
    /\ rpcCalls' = NoRpcCalls
    /\ phase' = "live"
    /\ result' = [op |-> "new", err |-> ""]
    /\ UNCHANGED <<files, ixn>>

Next ==
    \/ \E id \in {"A", "Clock"}, a \in InputRecords : SetAccountCall(id, a)
    \/ \E id \in {"A", "Clock"}, amount \in 1..MaxLamports : AirdropCall(id, amount)
    \/ \E id \in {"A", "Clock"} : ScenarioInsertCall(id, Account(MaxLamports, <<1>>, DefaultPubkey, FALSE, 0))
    \/ \E id \in Pubkeys : AccountMaybeCall(id)
    \/ \E id \in {"A", "B"} : ScenarioGetCall(id)
    \/ \E id \in Pubkeys : AccountCall(id)
    \/ \E rpc \in BOOLEAN : LoadScenario(rpc)
    \/ UseRpcOnly
    \/ DropSession
    \/ NewSession(DefaultConfig)

Spec == Init /\ [][Next]_vars

----------------------------------------------------------------------------
(* seashell.rs: process_instruction *)

MaxIxnRefs == 2         \* longest instruction.accounts a session processes

\* TransactionContext over transaction_accounts: the key at each compiled
\* entry's index_in_transaction, which is the key the program is handed at that
\* reference position.
ObservedKeys(tx, compiled) ==
    [p \in 1..Len(compiled) |-> tx[compiled[p].index_in_transaction + 1][1]]

\* The transaction indices the compiled instruction lets the engine write.
WritableIndices(compiled) ==
    {compiled[p].index_in_transaction : p \in {q \in 1..Len(compiled) : compiled[q].is_writable}}

\* The execution engine (external): it fails, or it succeeds and leaves in the
\* transaction context the accounts it was given with the balance of those at
\* the indices e.writes set to e.lamports.
EngineOutcomes(compiled) ==
    {[ok |-> FALSE, writes |-> {}, lamports |-> 0],
     [ok |-> TRUE, writes |-> {}, lamports |-> 0]} \cup
    {[ok |-> TRUE, writes |-> w, lamports |-> l] :
        w \in (SUBSET WritableIndices(compiled)) \ {{}}, l \in 0..MaxLamports}

EngineAccounts(tx, e) ==
    [t \in 1..Len(tx) |->
        IF (t - 1) \in e.writes THEN [tx[t][2] EXCEPT !.lamports = e.lamports] ELSE tx[t][2]]

\* TransactionContext::find_index_of_account: the first index holding pubkey.
find_index_of_account(tx, pubkey) == FirstOccurrence([t \in 1..Len(tx) |-> tx[t][1]], pubkey)

\* process_instruction: the post_execution_accounts, one entry per transaction
\* account, each read at the first index holding its pubkey.
PostExecutionAccounts(tx, after) ==
    [t \in 1..Len(tx) |-> <<tx[t][1], after[find_index_of_account(tx, tx[t][1]) + 1]>>]

\* A variant of the Ok(_) arm that writes back whatever the config says.
ProcessOk_AlwaysMemoize(r, cfg, compiled, post) ==
    The({[err |-> memo.err, error |-> None, post_execution_accounts |-> post,
          observed_keys |-> ObservedKeys(r.out, compiled), called |-> r.called,
          db |-> memo.db] :
            memo \in {set_accounts(r.db, post)}})

\* process_instruction: the Ok(_) arm; set_account runs per entry when memoize
\* is set.
ProcessOk(r, cfg, compiled, post) ==
    The({[err |-> memo.err, error |-> None, post_execution_accounts |-> post,
          observed_keys |-> ObservedKeys(r.out, compiled), called |-> r.called,
          db |-> memo.db] :
            memo \in {IF cfg.memoize THEN set_accounts(r.db, post)
                      ELSE [err |-> "", db |-> r.db]}})

\* A variant whose Err(_) arm reports the accounts as the engine left them.
ProcessResolved_PostOnError(r, cfg, compiled, e) ==
    IF r.err # ""
    THEN [err |-> r.err, error |-> None, post_execution_accounts |-> <<>>,
          observed_keys |-> <<>>, called |-> r.called, db |-> r.db]
    ELSE IF ~e.ok
    THEN [err |-> "", error |-> Some("InstructionError"),
          post_execution_accounts |-> PostExecutionAccounts(r.out, EngineAccounts(r.out, e)),
          observed_keys |-> ObservedKeys(r.out, compiled), called |-> r.called, db |-> r.db]
    ELSE ProcessOk(r, cfg, compiled, PostExecutionAccounts(r.out, EngineAccounts(r.out, e)))

\* process_instruction once the accounts are resolved (r) and compiled.
ProcessResolved(r, cfg, compiled, e) ==
    IF r.err # ""
    THEN [err |-> r.err, error |-> None, post_execution_accounts |-> <<>>,
          observed_keys |-> <<>>, called |-> r.called, db |-> r.db]
    ELSE IF ~e.ok
    THEN [err |-> "", error |-> Some("InstructionError"),
          post_execution_accounts |-> <<>>,
          observed_keys |-> ObservedKeys(r.out, compiled), called |-> r.called, db |-> r.db]
    ELSE The({ProcessOk(r, cfg, compiled, post) :
                post \in {PostExecutionAccounts(r.out, EngineAccounts(r.out, e))}})

\* Seashell::process_instruction with engine outcome e:
\* [err, error, post_execution_accounts, observed_keys, called, db]
process_instruction(db, cfg, i, e) ==
    The({ProcessResolved(r, cfg, compiled, e) :
            r \in {accounts_for_instruction(db, cfg.allow_uninitialized_accounts, i)},
            compiled \in {compile_accounts_for_instruction(i)}})

\* The get_account calls made for the pubkeys in called, added to counts.
RECURSIVE CountCalls(_, _)
CountCalls(counts, called) ==
    IF called = <<>> THEN counts
    ELSE CountCalls([counts EXCEPT ![called[1]] = @ + 1], Tail(called))

\* The instructions a session is handed: program P, references that may repeat
\* and may name the program; the program and a system variable are referenced
\* read-only, the other accounts writable.
SessionMetas ==
    {Meta("P", FALSE, FALSE), Meta("A", FALSE, TRUE), Meta("B", FALSE, TRUE),
     Meta("Clock", FALSE, FALSE)}

SessionInstructions == {Instruction("P", refs) : refs \in SeqsUpTo(SessionMetas, MaxIxnRefs)}

\* sysvar::instructions::id(): a well-known identifier that Sysvars::is_sysvar
\* does not recognize.
InstructionsSysvar == "Instructions"

\* The instructions of sessions that hand their program the instructions
\* sysvar: references to it, to the clock and to an ordinary account.
SysvarIxnMetas ==
    {Meta(InstructionsSysvar, FALSE, FALSE), Meta("Clock", FALSE, FALSE), Meta("A", FALSE, TRUE)}

SysvarIxnInstructions ==
    {Instruction("P", refs) : refs \in SeqsUpTo(SysvarIxnMetas, MaxIxnRefs)}

\* compile_accounts_for_instruction is a pure function of the instruction:
\* its value for each instruction a session is handed.
CompiledInstructions ==
    [i \in SessionInstructions \cup SysvarIxnInstructions |-> compile_accounts_for_instruction(i)]

\* AccountsDb::accounts_for_instruction called on the session's store
AccountsForInstructionCall(allow, i) ==
    /\ phase = "live"
    /\ \E r \in {accounts_for_instruction(CurDb, allow, i)} :
       \E n \in {CountCalls(rpcCalls, r.called)} :
           /\ \A k \in Pubkeys : n[k] <= MaxRpcCalls
           /\ scenario' = r.db.scenario
           /\ rpcCalls' = n
           /\ phase' = Live(r.err)
           /\ result' = [op |-> "accounts_for_instruction", allow |-> allow,
                         out |-> r.out, err |-> r.err]
    /\ ixn' = i
    /\ UNCHANGED <<accounts, sysvars, programs, config, files>>

\* Seashell::process_instruction; the engine does one of
\* EngineOutcomes(compile_accounts_for_instruction(i)).
ProcessInstruction(i) ==
    /\ phase = "live"
    /\ \E resolved \in {accounts_for_instruction(CurDb, config.allow_uninitialized_accounts, i)} :
       \E e \in EngineOutcomes(CompiledInstructions[i]) :
       \E r \in {ProcessResolved(resolved, config, CompiledInstructions[i], e)} :
       \E n \in {CountCalls(rpcCalls, r.called)} :
           /\ \A k \in Pubkeys : n[k] <= MaxRpcCalls
           /\ accounts' = r.db.accounts
           /\ scenario' = r.db.scenario
           /\ sysvars' = r.db.sysvars
           /\ rpcCalls' = n
           /\ phase' = Live(r.err)
           /\ result' = [op |-> "process_instruction", err |-> r.err, error |-> r.error,
                         post_execution_accounts |-> r.post_execution_accounts,
                         observed_keys |-> r.observed_keys]
    /\ ixn' = i
    /\ UNCHANGED <<programs, config, files>>

Configs == [memoize : BOOLEAN, allow_uninitialized_accounts : BOOLEAN]

BaseRecord == Account(MaxLamports, <<1>>, DefaultPubkey, FALSE, 0)
OverlayRecord == Account(0, <<2>>, DefaultPubkey, FALSE, 0)

InitIxn == \E cfg \in Configs : InitSession(cfg, [p \in {ScenarioPath} |-> None])

\* Resolution of an instruction's accounts against a store that was set up.
NextResolve ==
    \/ SetAccountCall("A", BaseRecord)
    \/ ScenarioInsertCall("A", OverlayRecord)
    \/ UseRpcOnly
    \/ \E allow \in BOOLEAN, i \in SessionInstructions : AccountsForInstructionCall(allow, i)

SpecResolve == InitIxn /\ [][NextResolve]_vars

\* A session created to process the instruction ixn.
InitProcess ==
    \E cfg \in Configs, i \in SessionInstructions :
        /\ accounts = NewDb.accounts
        /\ scenario = NewDb.scenario
        /\ sysvars = NewDb.sysvars
        /\ programs = NewDb.programs
        /\ config = cfg
        /\ files = [p \in {ScenarioPath} |-> None]
        /\ rpcCalls = NoRpcCalls
        /\ phase = "live"
        /\ ixn = i
        /\ result = NoResult

\* Sessions that set the store up and process their instruction, once or
\* several times.
NextIxn ==
    \/ SetAccountCall("A", BaseRecord)
    \/ ScenarioInsertCall("A", OverlayRecord)
    \/ UseRpcOnly
    \/ ProcessInstruction(ixn)
    \/ \E id \in {"A", "B"} : AccountCall(id)

SpecIxn == InitProcess /\ [][NextIxn]_vars

\* C1: the account handed to the engine at reference position i is the one the
\* reference names: the transaction account at the compiled entry's
\* index_in_transaction has the identifier of reference i.
C1_ObservedKeysInReferenceOrder ==
    (result.op = "process_instruction" /\ result.err = "") =>
        \A p \in 1..Len(ixn.accounts) : result.observed_keys[p] = ixn.accounts[p].pubkey

\* C5: with memoize enabled, after a successful process_instruction every
\* account of the instruction resolves to its post-execution value.
C5_MemoizedEffectsVisible ==
    (/\ result.op = "process_instruction"
     /\ result.err = ""
     /\ result.error = None
     /\ config.memoize) =>
        \A p \in 1..Len(result.post_execution_accounts) :
            account_maybe(CurDb, result.post_execution_accounts[p][1]) =
                Some(result.post_execution_accounts[p][2])

\* C15: with memoize disabled, a successful process_instruction returns one
\* post-execution account per transaction account, in the order of
\* [program, ref_1, ref_2, ...], and leaves the base map and the system
\* variables exactly as they were before the call.
C15_NoMemoizeLeavesStore ==
    [][(/\ result'.op = "process_instruction"
        /\ result'.err = ""
        /\ result'.error = None
        /\ ~config.memoize) =>
          /\ accounts' = accounts
          /\ sysvars' = sysvars
          /\ Len(result'.post_execution_accounts) = 1 + Len(ixn'.accounts)
          /\ \A t \in 1..Len(result'.post_execution_accounts) :
                result'.post_execution_accounts[t][1] = FullKeyList(ixn')[t]]_vars

\* C15 witness: without memoize, the instruction changed A and the store still
\* resolves A to another record than the one returned to the caller.
C15_Witness ==
    /\ result.op = "process_instruction"
    /\ result.err = ""
    /\ result.error = None
    /\ ~config.memoize
    /\ \E t \in 1..Len(result.post_execution_accounts) :
          /\ result.post_execution_accounts[t][1] = "A"
          /\ account_maybe(CurDb, "A") # None
          /\ account_maybe(CurDb, "A") # Some(result.post_execution_accounts[t][2])

\* C16: when the engine returns an error, process_instruction returns that
\* error with an empty post_execution_accounts list and leaves the base map and
\* the system variables unchanged, with memoize enabled or not.
C16_EngineErrorLeavesStore ==
    [][(/\ result'.op = "process_instruction"
        /\ result'.err = ""
        /\ result'.error # None) =>
          /\ result'.error = Some("InstructionError")
          /\ result'.post_execution_accounts = <<>>
          /\ accounts' = accounts
          /\ sysvars' = sysvars]_vars

\* C16 witness: with memoize enabled, an instruction with a writable reference
\* to A, which the store holds, failed in the engine.
C16_Witness ==
    /\ result.op = "process_instruction"
    /\ result.err = ""
    /\ result.error = Some("InstructionError")
    /\ config.memoize
    /\ result.post_execution_accounts = <<>>
    /\ account_maybe(CurDb, "A") # None
    /\ \E p \in 1..Len(ixn.accounts) :
          ixn.accounts[p].pubkey = "A" /\ ixn.accounts[p].is_writable

\* C10: accounts_for_instruction returns 1 + (number of references) entries:
\* the program identifier first, then each reference's identifier in
\* instruction order, duplicates included, each with the record it resolves to
\* (the zeroed record for an unresolved one when uninitialized accounts are
\* allowed).
C10_AccountsForInstructionShape ==
    (result.op = "accounts_for_instruction" /\ result.err = "") =>
        /\ Len(result.out) = 1 + Len(ixn.accounts)
        /\ result.out[1][1] = ixn.program_id
        /\ \A p \in 1..Len(ixn.accounts) : result.out[p + 1][1] = ixn.accounts[p].pubkey
        /\ \A t \in 1..Len(result.out) :
              LET m == account_maybe(CurDb, result.out[t][1]) IN
              IF m # None THEN result.out[t][2] = m[1]
              ELSE t > 1 /\ result.allow /\ result.out[t][2] = DefaultAccount

\* C10 witness: an instruction with two references to the same identifier
\* resolved to three entries.
C10_Witness ==
    /\ result.op = "accounts_for_instruction"
    /\ result.err = ""
    /\ Len(ixn.accounts) = 2
    /\ ixn.accounts[1].pubkey = "A"
    /\ ixn.accounts[2].pubkey = "A"
    /\ Len(result.out) = 3
    /\ result.out[3][1] = "A"

\* C11: with allow_uninitialized_accounts set, accounts_for_instruction does not
\* fail on a reference whose identifier is absent from every layer: the entry
\* for it holds balance 0, empty data, the default owner and executable false,
\* and the call leaves the base map, the overlay, the system variables and the
\* remote-call counts as they were.
C11_UninitializedResolveToDefault ==
    [][(/\ result'.op = "accounts_for_instruction"
        /\ result'.allow
        /\ account_maybe(CurDb, ixn'.program_id) # None) =>
          /\ result'.err = ""
          /\ phase' = "live"
          /\ \A p \in 1..Len(ixn'.accounts) :
                account_maybe(CurDb, ixn'.accounts[p].pubkey) = None =>
                    result'.out[p + 1][2] = Account(0, <<>>, DefaultPubkey, FALSE, 0)
          /\ accounts' = accounts
          /\ scenario' = scenario
          /\ sysvars' = sysvars
          /\ rpcCalls' = rpcCalls]_vars

\* C11 witness: a reference to B, which no layer holds, resolved to the zeroed
\* record.
C11_Witness ==
    /\ result.op = "accounts_for_instruction"
    /\ result.allow
    /\ result.err = ""
    /\ "B" \notin (DOMAIN scenario.data) \cup (DOMAIN accounts)
    /\ \E p \in 1..Len(ixn.accounts) :
          /\ ixn.accounts[p].pubkey = "B"
          /\ result.out[p + 1] = <<"B", Account(0, <<>>, DefaultPubkey, FALSE, 0)>>

----------------------------------------------------------------------------
(* Properties of the store and of the overlay, checked under Spec *)

\* The generic layers in precedence order: overlay entry, else base entry.
LayeredLookup(sc, acc, id) ==
    IF id \in DOMAIN sc.data THEN Some(sc.data[id])
    ELSE IF id \in DOMAIN acc THEN Some(acc[id])
    ELSE None

\* C2: for an identifier that is not a system variable, account_maybe returns
\* the overlay entry if there is one, else the base entry if there is one, else
\* nothing; account returns the same record whenever account_maybe has one, and
\* the remote source is consulted only when account_maybe has none.
C2_ResolutionOrder ==
    [][(result'.op \in {"account_maybe", "account"} /\ ~is_sysvar(result'.id)) =>
        LET expected == LayeredLookup(scenario, accounts, result'.id) IN
        /\ result'.op = "account_maybe" => result'.out = expected
        /\ (result'.op = "account" /\ expected # None) =>
              /\ result'.out = expected
              /\ result'.err = ""
              /\ rpcCalls' = rpcCalls
              /\ scenario' = scenario
        /\ rpcCalls' # rpcCalls => (result'.op = "account" /\ expected = None)]_vars

\* C2 witness: account returned the overlay entry of an identifier whose base
\* entry differs.
C2_Witness ==
    /\ result.op = "account"
    /\ result.id \in (DOMAIN scenario.data) \cap (DOMAIN accounts)
    /\ ~is_sysvar(result.id)
    /\ scenario.data[result.id] # accounts[result.id]
    /\ result.out = Some(scenario.data[result.id])

TeardownOps == {"drop", "load_scenario", "rpc_only"}

\* C6: the scenario file is written exactly when an overlay that is dirty and
\* has a path is torn down, and then holds that overlay's entries; no other
\* step, no teardown of a clean overlay or of one without a path, and no step
\* after the session was dropped changes any file.
C6_FlushIffDirtyAndPath ==
    [][IF result'.op \in TeardownOps /\ scenario.dirty /\ scenario.path # None
       THEN files' = [files EXCEPT ![scenario.path[1]] = Some(SerializeScenario(scenario.data))]
       ELSE files' = files]_vars

\* C6 witness: a dirty overlay with a path and entries was dropped and its file
\* holds its entries.
C6_Witness ==
    /\ phase = "dropped"
    /\ scenario.dirty
    /\ scenario.path = Some(ScenarioPath)
    /\ scenario.data # EmptyMap
    /\ files[ScenarioPath] = Some(SerializeScenario(scenario.data))

\* C7: a write under a recognized system-variable identifier leaves the base
\* map unchanged; a write under any other identifier upserts the base map and
\* leaves the typed cache unchanged; the base map never holds a recognized
\* system-variable identifier.
C7_WriteRouting ==
    /\ [](DOMAIN accounts \cap SysvarIds = {})
    /\ [][result'.op \in {"set_account", "airdrop"} =>
            IF is_sysvar(result'.id)
            THEN accounts' = accounts
            ELSE /\ sysvars' = sysvars
                 /\ DOMAIN accounts' = (DOMAIN accounts) \cup {result'.id}
                 /\ \A k \in DOMAIN accounts : k # result'.id => accounts'[k] = accounts[k]
                 /\ result'.op = "set_account" => accounts'[result'.id] = result'.account]_vars

\* C7 witness: a write under the clock identifier changed the typed field and
\* the base map does not hold the identifier.
C7_Witness ==
    /\ result.op = "set_account"
    /\ result.id = "Clock"
    /\ result.err = ""
    /\ sysvars["Clock"] # DefaultSysvars["Clock"]
    /\ "Clock" \notin DOMAIN accounts

\* C8: for a recognized system-variable identifier, account_maybe and account
\* return the value of the system-variable cache, also when a generic map holds
\* a different record under that identifier.
C8_SysvarPrecedence ==
    (result.op \in {"account_maybe", "account"} /\ is_sysvar(result.id)) =>
        /\ result.err = ""
        /\ result.out = Some(SysvarsGet(sysvars, result.id))

\* C8 witness: the overlay holds a different record under the clock identifier
\* and account returned a record.
C8_Witness ==
    /\ result.op = "account"
    /\ result.id = "Clock"
    /\ "Clock" \in DOMAIN scenario.data
    /\ result.out # None
    /\ scenario.data["Clock"] # SysvarsGet(sysvars, "Clock")

\* C9: account(id) for an identifier absent from every layer fails with
\* AccountNotFound when no remote source is configured and with
\* RemoteFetchFailed when the remote call errs; the overlay's entries and dirty
\* flag are unchanged in both cases.
C9_MissingAccountFails ==
    [][(/\ result'.op = "account"
        /\ ~is_sysvar(result'.id)
        /\ LayeredLookup(scenario, accounts, result'.id) = None
        /\ (~scenario.rpc_client \/ result'.id \notin DOMAIN RemoteAccounts)) =>
          /\ result'.err = IF scenario.rpc_client THEN "RemoteFetchFailed"
                           ELSE "AccountNotFound"
          /\ result'.out = None
          /\ phase' = "panicked"
          /\ scenario'.data = scenario.data
          /\ scenario'.dirty = scenario.dirty]_vars

\* C9 witness: the remote call failed for an absent identifier.
C9_Witness ==
    /\ phase = "panicked"
    /\ result.op = "account"
    /\ result.err = "RemoteFetchFailed"
    /\ scenario.rpc_client
    /\ ~scenario.dirty

\* C13: when a dirty overlay with a path has been torn down, a new overlay
\* loaded from that path holds exactly the entries of the one torn down: the
\* same identifiers, each with the same data, balance, owner, executable flag
\* and epoch.
C13_OverlayRoundTrip ==
    (phase = "dropped" /\ scenario.dirty /\ scenario.path # None) =>
        from_file(files, scenario.path[1]).data = scenario.data

\* C13 witness: an overlay with two entries that carry data was torn down and
\* its file, loaded, gives the two entries back.
C13_Witness ==
    /\ phase = "dropped"
    /\ scenario.dirty
    /\ scenario.path = Some(ScenarioPath)
    /\ Cardinality(DOMAIN scenario.data) >= 2
    /\ \A k \in DOMAIN scenario.data : scenario.data[k].data # <<>>
    /\ files[ScenarioPath] # None
    /\ DOMAIN from_file(files, ScenarioPath).data = DOMAIN scenario.data

\* C14: a step that asks the remote source and succeeds stores the fetched
\* record in the overlay and sets dirty; a resolution of an identifier the
\* overlay holds returns the overlay's record and asks the remote source
\* nothing; over the life of one overlay the remote source is asked at most
\* once per identifier.
C14_RemoteAskedOncePerId ==
    /\ [](\A k \in DOMAIN rpcCalls : rpcCalls[k] <= 1)
    /\ [][/\ (rpcCalls' # rpcCalls /\ result'.op = "account" /\ result'.err = "") =>
                /\ rpcCalls[result'.id] = 0
                /\ rpcCalls'[result'.id] = 1
                /\ result'.id \in DOMAIN scenario'.data
                /\ result'.out = Some(scenario'.data[result'.id])
                /\ result'.out = Some(RemoteAccounts[result'.id])
                /\ scenario'.dirty
          /\ (/\ result'.op \in {"account", "account_maybe"}
              /\ ~is_sysvar(result'.id)
              /\ result'.id \in DOMAIN scenario.data) =>
                /\ result'.out = Some(scenario.data[result'.id])
                /\ rpcCalls' = rpcCalls]_vars

\* C14 witness: B was fetched once into this overlay, and account_maybe, which
\* never asks the remote source, returned the fetched record.
C14_Witness ==
    /\ rpcCalls["B"] = 1
    /\ result.op = "account_maybe"
    /\ result.id = "B"
    /\ result.out = Some(RemoteAccounts["B"])
    /\ scenario.dirty
    /\ "B" \notin DOMAIN accounts

----------------------------------------------------------------------------
(* The system-variable cache and the operations that reach it *)

\* The data callers put in a record written under a system-variable id:
\* truncated, a valid encoding, a valid encoding with trailing bytes.
SysvarData == {<<>>, <<1>>, <<1, 0>>}

SysvarRecord(d) == Account(0, d, SysvarOwner, FALSE, 0)

\* Sysvars::set called on the session's cache
SysvarsSetCall(id, a) ==
    /\ phase = "live"
    /\ \E r \in {SysvarsSet(sysvars, id, a)} :
       /\ sysvars' = r.sysvars
       /\ phase' = Live(r.err)
       /\ result' = [op |-> "sysvars_set", id |-> id, account |-> a, err |-> r.err]
    /\ UNCHANGED <<accounts, scenario, programs, config, files, rpcCalls, ixn>>

\* Sysvars::get called on the session's cache
SysvarsGetCall(id) ==
    /\ phase = "live"
    /\ \E r \in {SysvarsGetOrPanic(sysvars, id)} :
       /\ phase' = Live(r.err)
       /\ result' = [op |-> "sysvars_get", id |-> id, out |-> r.out, err |-> r.err]
    /\ UNCHANGED <<accounts, scenario, sysvars, programs, config, files, rpcCalls, ixn>>

\* AccountsDb::sysvars_for_instruction called with the accounts accs
SysvarsForInstructionCall(accs) ==
    /\ phase = "live"
    /\ result' = [op |-> "sysvars_for_instruction", accounts |-> accs,
                  out |-> sysvars_for_instruction(CurDb, accs), err |-> ""]
    /\ UNCHANGED <<accounts, scenario, sysvars, programs, config, files, rpcCalls, phase, ixn>>

\* The resolved accounts handed to sysvars_for_instruction: none, one that is
\* no system variable, the clock with a value of the caller's, the clock twice.
SysvarInstructionAccounts ==
    {<<>>,
     <<<<"P", BuiltinAccount>>>>,
     <<<<"P", BuiltinAccount>>, <<"Clock", SysvarRecord(<<1>>)>>>>,
     <<<<"P", BuiltinAccount>>, <<"Clock", SysvarRecord(<<0>>)>>>>,
     <<<<"Clock", SysvarRecord(<<0>>)>>, <<"Clock", SysvarRecord(<<1>>)>>>>,
     <<<<"Fees", SysvarRecord(<<1>>)>>>>}

NextSysvars ==
    \/ \E id \in SysvarIds \cup {"A"}, d \in SysvarData : SysvarsSetCall(id, SysvarRecord(d))
    \/ \E id \in SysvarIds : SysvarsSetCall(id, SysvarsGet(sysvars, id))
    \/ \E id \in SysvarIds \cup {"A"} : SysvarsGetCall(id)
    \/ \E id \in {"Clock", "EpochRewards", "Fees"}, d \in SysvarData :
          SetAccountCall(id, SysvarRecord(d))
    \/ \E id \in {"Clock", "EpochRewards", "Fees", "A"} : AccountMaybeCall(id)
    \/ \E accs \in SysvarInstructionAccounts : SysvarsForInstructionCall(accs)

SpecSysvars == Init /\ [][NextSysvars]_vars

\* C12: sysvars_for_instruction hands over, for each well-known variable, the
\* data of a record under that identifier among the accounts it was given when
\* there is one, otherwise the data the store resolves the identifier to, and
\* empty data when the store resolves it to nothing.
C12_ExplicitSysvarWins ==
    result.op = "sysvars_for_instruction" =>
        /\ result.err = ""
        /\ \A v \in SysvarIds \cup {"Fees"} :
              LET found == {t \in 1..Len(result.accounts) : result.accounts[t][1] = v}
                  own == account_maybe(CurDb, v)
              IN  IF found # {}
                  THEN \E t \in found : result.out[v] = result.accounts[t][2].data
                  ELSE IF own # None THEN result.out[v] = own[1].data
                  ELSE result.out[v] = <<>>

\* C12 witness: the accounts carry a clock that differs from the one of the
\* store and the clock handed over is the accounts'; Fees, which neither has,
\* is handed over empty.
C12_Witness ==
    /\ result.op = "sysvars_for_instruction"
    /\ Len(result.accounts) = 2
    /\ result.accounts[2][1] = "Clock"
    /\ result.accounts[2][2].data # SysvarsGet(sysvars, "Clock").data
    /\ result.out["Clock"] = result.accounts[2][2].data
    /\ result.out["Rent"] = SysvarsGet(sysvars, "Rent").data
    /\ account_maybe(CurDb, "Fees") = None
    /\ result.out["Fees"] = <<>>

\* C17: for each of the seven kinds, after a write of a valid encoding b under
\* its identifier the record read back has data b, and writing back the record
\* just read succeeds and leaves every typed field unchanged.
C17_SysvarRoundTrip ==
    [][(result'.op \in {"sysvars_set", "set_account"} /\ result'.id \in SysvarIds) =>
          /\ (result'.err = "" /\ Len(result'.account.data) = SysvarEncodedLen(result'.id)) =>
                SysvarsGet(sysvars', result'.id).data = result'.account.data
          /\ result'.account = SysvarsGet(sysvars, result'.id) =>
                (result'.err = "" /\ sysvars' = sysvars)]_vars

\* C18: set_account under a recognized system-variable identifier with data too
\* short to decode fails with InvalidSystemVariableEncoding and leaves every
\* typed field and the base map unchanged.
C18_MalformedSysvarRejected ==
    [][(/\ result'.op = "set_account"
        /\ is_sysvar(result'.id)
        /\ Len(result'.account.data) < SysvarEncodedLen(result'.id)) =>
          /\ result'.err = "InvalidSystemVariableEncoding"
          /\ phase' = "panicked"
          /\ sysvars' = sysvars
          /\ accounts' = accounts]_vars

\* C18 witness: the clock was written, then a write of truncated data under the
\* clock identifier failed and the written clock is still there.
C18_Witness ==
    /\ phase = "panicked"
    /\ result.op = "set_account"
    /\ result.id = "Clock"
    /\ result.account.data = <<>>
    /\ result.err = "InvalidSystemVariableEncoding"
    /\ sysvars["Clock"] # DefaultSysvars["Clock"]

\* C19: is_sysvar holds exactly for the seven fixed identifiers; Sysvars::get
\* and Sysvars::set fail with UnknownSystemVariable for every other identifier
\* and only for those, get succeeding on each of the seven; no operation of the
\* store ends with UnknownSystemVariable.
C19_UnknownSysvarOnlyFromCache ==
    LET Seven == {"Clock", "EpochSchedule", "EpochRewards", "Rent", "SlotHashes",
                  "StakeHistory", "LastRestartSlot"}
    IN  /\ \A id \in Pubkeys \cup WellKnownSysvars : is_sysvar(id) <=> id \in Seven
        /\ result.op \in {"sysvars_get", "sysvars_set"} =>
              /\ result.err = "UnknownSystemVariable" <=> result.id \notin Seven
              /\ result.err = "" => result.id \in Seven
              /\ (result.op = "sysvars_get" /\ result.id \in Seven) => result.err = ""
        /\ result.op \in {"set_account", "account_maybe", "account", "airdrop",
                          "sysvars_for_instruction"} =>
              result.err \notin {"UnknownSystemVariable"}

\* C19 witness: Sysvars::set under an identifier that is no system variable
\* failed with UnknownSystemVariable.
C19_Witness ==
    /\ phase = "panicked"
    /\ result.op = "sysvars_set"
    /\ result.id = "A"
    /\ result.err = "UnknownSystemVariable"
    /\ result.err # "AccountNotFound"

----------------------------------------------------------------------------
(* The compiler alone: a pure function of the instruction *)

CompileKeys == {"P", "A", "B"}

InitCompile ==
    /\ ixn \in {Instruction("P", refs) : refs \in SeqsUpTo(MetasOver(CompileKeys), MaxRefs)}
    /\ phase = "pure"
    /\ result = NoResult
    /\ accounts = <<>>
    /\ scenario = <<>>
    /\ sysvars = <<>>
    /\ programs = <<>>
    /\ config = <<>>
    /\ files = <<>>
    /\ rpcCalls = <<>>

Compile ==
    /\ phase = "pure"
    /\ result = NoResult
    /\ result' = [op |-> "compile", value |-> compile_accounts_for_instruction(ixn)]
    /\ UNCHANGED <<accounts, scenario, sysvars, programs, config, files, rpcCalls, phase, ixn>>

NextCompile == Compile

SpecCompile == InitCompile /\ [][NextCompile]_vars

\* C3: each compiled entry's index_in_transaction is the 0-based position of
\* the first occurrence of its reference's identifier in the list
\* [program, ref_1.account, ref_2.account, ...], duplicates included.
C3_IndexIsFirstOccurrence ==
    result.op = "compile" =>
        \A p \in 1..Len(ixn.accounts) :
            result.value[p].index_in_transaction =
                FirstOccurrence(FullKeyList(ixn), ixn.accounts[p].pubkey)

\* C4: every compiled entry carries is_signer and is_writable equal to the
\* logical OR of the flags of all references to its identifier, wherever those
\* references stand in the instruction.
C4_FlagsAreOrOfOccurrences ==
    result.op = "compile" =>
        \A p \in 1..Len(ixn.accounts) :
            LET same == {q \in 1..Len(ixn.accounts) :
                            ixn.accounts[q].pubkey = ixn.accounts[p].pubkey}
            IN  /\ result.value[p].is_signer = (\E q \in same : ixn.accounts[q].is_signer)
                /\ result.value[p].is_writable = (\E q \in same : ixn.accounts[q].is_writable)

\* C4 witness: a signer, writable reference followed by a narrower reference to
\* the same identifier; both compiled entries are signer and writable.
C4_Witness ==
    /\ result.op = "compile"
    /\ Len(ixn.accounts) >= 2
    /\ ixn.accounts[1] = Meta("A", TRUE, TRUE)
    /\ ixn.accounts[2] = Meta("A", FALSE, FALSE)
    /\ result.value[1].is_signer /\ result.value[1].is_writable
    /\ result.value[2].is_signer /\ result.value[2].is_writable

\* C20: the compiled output has exactly one entry per reference of the
\* instruction, duplicates included, and the entry at position i is the one of
\* reference i: its index_in_transaction is the index the compiler assigned to
\* that reference's identifier; no references compile to the empty list.
C20_OneEntryPerReference ==
    result.op = "compile" =>
        /\ Len(result.value) = Len(ixn.accounts)
        /\ \A p \in 1..Len(ixn.accounts) :
              AccountMap(ixn)[result.value[p].index_in_transaction + 1].key =
                  ixn.accounts[p].pubkey
        /\ ixn.accounts = <<>> => result.value = <<>>

\* C20 witness: three references to two distinct identifiers compiled to three
\* entries.
C20_Witness ==
    /\ result.op = "compile"
    /\ Len(ixn.accounts) = 3
    /\ Cardinality({ixn.accounts[p].pubkey : p \in 1..3}) = 2
    /\ Len(result.value) = 3

\* C21: no entry of the compiled output has index_in_transaction 0, the index
\* of the program identifier.
C21_ProgramNotInOutput ==
    result.op = "compile" =>
        \A p \in 1..Len(result.value) :
            result.value[p].index_in_transaction # INSTRUCTION_PROGRAM_ID_INDEX


\* C22: the compiled entry at reference position i has index_in_callee equal to
\* the smallest position j <= i whose reference names the same identifier, so a
\* first occurrence points at itself and every duplicate at the first
\* occurrence of its account.
C22_CalleeIndexIsFirstOccurrence ==
    result.op = "compile" =>
        \A p \in 1..Len(ixn.accounts) :
            LET same == {q \in 1..p : ixn.accounts[q].pubkey = ixn.accounts[p].pubkey}
            IN  /\ result.value[p].index_in_callee + 1 \in same
                /\ \A q \in same : result.value[p].index_in_callee + 1 <= q

\* C22 witness: the third reference repeats the first one with another
\* identifier in between, and its entry points at position 0.
C22_Witness ==
    /\ result.op = "compile"
    /\ Len(ixn.accounts) = 3
    /\ ixn.accounts[1].pubkey = "A"
    /\ ixn.accounts[2].pubkey = "B"
    /\ ixn.accounts[3].pubkey = "A"
    /\ result.value[3].index_in_callee = 0
    /\ result.value[2].index_in_callee = 1


----------------------------------------------------------------------------
(* Lookups that only read *)

\* C23: Scenario::get and AccountsDb::account_maybe are non-mutating: a call
\* of either leaves the overlay entries, the dirty flag, the base map and the
\* system-variable cache as they were, and the remote source is not asked.
C23_LookupsDoNotMutate ==
    [][result'.op \in {"account_maybe", "scenario_get"} =>
          /\ scenario'.data = scenario.data
          /\ scenario'.dirty = scenario.dirty
          /\ accounts' = accounts
          /\ sysvars' = sysvars
          /\ rpcCalls' = rpcCalls]_vars

\* C23 witness: account_maybe found nothing under B although the overlay has a
\* remote source that knows B; the overlay is still clean and empty of B and
\* the remote source was never asked.
C23_Witness ==
    /\ result.op = "account_maybe"
    /\ result.id = "B"
    /\ result.out = None
    /\ scenario.rpc_client
    /\ "B" \in DOMAIN RemoteAccounts
    /\ "B" \notin DOMAIN scenario.data
    /\ ~scenario.dirty
    /\ rpcCalls["B"] = 0


----------------------------------------------------------------------------
(* The scenario file: files that do not decode and writes that fail *)

\* The files a session may find under the scenario path when it starts.
\* Files written by hand with fields left out: the first three omit some of
\* the balance, the executable flag and the epoch, the last one the data.
SparseFiles ==
    {[k \in {"A"} |-> [data |-> <<0, 2>>, owner |-> DefaultPubkey]],
     [k \in {"A"} |-> [data |-> <<0, 2>>, owner |-> DefaultPubkey, lamports |-> 1]],
     [k \in {"A"} |-> [data |-> <<>>, owner |-> DefaultPubkey, executable |-> TRUE,
                       rent_epoch |-> 1]],
     [k \in {"A"} |-> [owner |-> DefaultPubkey, lamports |-> 1]]}

InitialFiles ==
    {None, Some(EmptyMap), Some(SerializeScenario(MapInsert(EmptyMap, "A", OverlayRecord))),
     Some(UndecodableFile)} \cup {Some(f) : f \in SparseFiles}

InitFiles ==
    \E f \in InitialFiles : InitSession(DefaultConfig, [p \in {ScenarioPath} |-> f])

NextFiles ==
    \/ \E a \in InputRecords : ScenarioInsertCall("A", a)
    \/ \E id \in {"A", "B"} : AccountCall(id)
    \/ \E rpc \in BOOLEAN, io \in IoOutcomes : LoadScenarioIO(rpc, io)
    \/ \E io \in IoOutcomes : UseRpcOnlyIO(io)
    \/ \E io \in IoOutcomes : DropSessionIO(io)
    \/ NewSession(DefaultConfig)

SpecFiles == InitFiles /\ [][NextFiles]_vars

\* C24: Scenario::from_file on a path where no file exists yields an empty
\* overlay with dirty = false; on an existing file that cannot be decoded it
\* fails fatally and yields no overlay, neither an empty nor a partial one.
C24_MissingFileEmptyMalformedFatal ==
    [][result'.op = "load_scenario" =>
          /\ files[ScenarioPath] = None =>
                /\ result'.err = ""
                /\ scenario'.data = EmptyMap
                /\ ~scenario'.dirty
                /\ scenario'.path = Some(ScenarioPath)
          /\ (files[ScenarioPath] # None /\ ~Decodes(files[ScenarioPath][1])) =>
                /\ result'.err = "ScenarioDecodeFailed"
                /\ phase' = "panicked"
                /\ scenario' = scenario]_vars

\* C24 witness: a session whose overlay was loaded from a missing file and
\* filled, and whose write then failed half way, loads the file again and
\* fails on it.
C24_Witness ==
    /\ phase = "panicked"
    /\ result.op = "load_scenario"
    /\ result.err = "ScenarioDecodeFailed"
    /\ files[ScenarioPath] = Some(UndecodableFile)
    /\ scenario.path = Some(ScenarioPath)
    /\ scenario.data = EmptyMap
    /\ ~scenario.dirty

\* C25: when the write of the scenario file fails at teardown, because the
\* file cannot be opened or the data cannot be written out, the teardown
\* completes and no error or fatal failure reaches the caller.
C25_WriteFailureSwallowed ==
    [][(result'.op \in TeardownOps /\ result'.io \in {"open_failed", "write_failed"}) =>
          /\ DropWrites(scenario)
          /\ result'.err = ""
          /\ phase' = (IF result'.op = "drop" THEN "dropped" ELSE "live")
          /\ result'.op = "load_scenario" => scenario' # scenario
          /\ result'.io = "open_failed" => files' = files]_vars

\* C25 witness: a dirty overlay with a path was dropped, its file could not be
\* opened, and the session ended as every other.
C25_Witness ==
    /\ phase = "dropped"
    /\ result.op = "drop"
    /\ result.io = "open_failed"
    /\ result.err = ""
    /\ DropWrites(scenario)
    /\ files[ScenarioPath] = None


----------------------------------------------------------------------------
(* Programs: builtins, images loaded from bytes and from the environment *)

MaxImageLen == 2        \* longest program image loaded

\* Program images: the ones the loader accepts start with 127.
Images == {b \in SeqsUpTo({1, 127}, MaxImageLen) : Len(b) >= 1}

Loaders == {BpfLoader, "BPFLoaderUpgradeable"}

\* The identifiers programs are loaded under: a fresh one and a sysvar id.
ProgramIds == {"A", "Clock"}

\* What the program directory may hold when load_program_from_environment
\* looks for prog.so.
ProgramDirs ==
    {None, Some(<<>>),
     Some(<<[stem |-> "other", ext |-> "so", bytes |-> <<127>>]>>),
     Some(<<[stem |-> "prog", ext |-> "json", bytes |-> <<1>>]>>),
     Some(<<[stem |-> "other", ext |-> "so", bytes |-> <<127>>],
            [stem |-> "prog", ext |-> "so", bytes |-> <<127, 1>>]>>),
     Some(<<[stem |-> "prog", ext |-> "so", bytes |-> <<1>>]>>)}

\* AccountsDb::load_builtins
LoadBuiltinsCall(feature_set) ==
    /\ phase = "live"
    /\ \E d \in {load_builtins(CurDb, feature_set)} :
       /\ accounts' = d.accounts
       /\ sysvars' = d.sysvars
       /\ programs' = d.programs
    /\ result' = [op |-> "load_builtins", feature_set |-> feature_set, err |-> ""]
    /\ UNCHANGED <<scenario, config, files, rpcCalls, phase, ixn>>

\* AccountsDb::load_program_from_bytes_with_loader
LoadProgramCall(id, bytes, loader) ==
    /\ phase = "live"
    /\ \E r \in {load_program_from_bytes_with_loader(CurDb, id, bytes, loader)} :
       /\ accounts' = r.db.accounts
       /\ sysvars' = r.db.sysvars
       /\ programs' = r.db.programs
       /\ phase' = Live(r.err)
       /\ result' = [op |-> "load_program", id |-> id, bytes |-> bytes, loader |-> loader,
                     err |-> r.err]
    /\ UNCHANGED <<scenario, config, files, rpcCalls, ixn>>

\* Seashell::load_program_from_environment
LoadProgramFromEnvironmentCall(dir, program_name, id) ==
    /\ phase = "live"
    /\ \E r \in {load_program_from_environment(CurDb, dir, program_name, id)} :
       /\ accounts' = r.db.accounts
       /\ sysvars' = r.db.sysvars
       /\ programs' = r.db.programs
       /\ phase' = Live(r.panic)
       /\ result' = [op |-> "load_program_from_environment", id |-> id, dir |-> dir,
                     program_name |-> program_name, ret |-> r.ret, err |-> r.panic]
    /\ UNCHANGED <<scenario, config, files, rpcCalls, ixn>>

\* Seashell::default(): the store before any builtin is loaded.
InitPrograms ==
    /\ accounts = DefaultDb.accounts
    /\ scenario = DefaultDb.scenario
    /\ sysvars = DefaultDb.sysvars
    /\ programs = DefaultDb.programs
    /\ config = DefaultConfig
    /\ files = [p \in {ScenarioPath} |-> None]
    /\ rpcCalls = NoRpcCalls
    /\ phase = "live"
    /\ ixn = NoInstruction
    /\ result = NoResult

NextPrograms ==
    \/ \E feature_set \in SUBSET AllFeatures : LoadBuiltinsCall(feature_set)
    \/ \E id \in {"Clock", "Rent"} : SetAccountCall(id, SysvarRecord(<<1>>))
    \/ \E id \in ProgramIds, bytes \in Images, loader \in Loaders :
          LoadProgramCall(id, bytes, loader)
    \/ \E dir \in ProgramDirs : LoadProgramFromEnvironmentCall(dir, "prog", "A")

SpecPrograms == InitPrograms /\ [][NextPrograms]_vars

\* C26: after load_program_from_bytes_with_loader(id, bytes, loader, ..)
\* succeeds, the base store holds under id an executable record owned by
\* loader whose balance is the rent-exempt minimum for len(bytes) under the
\* rent variable current at the call, and the program cache holds an entry for
\* id registered at the clock slot current at the call.
C26_LoadedProgramRecordAndEntry ==
    [][(result'.op = "load_program" /\ result'.err = "") =>
          /\ result'.id \in DOMAIN accounts'
          /\ accounts'[result'.id].executable
          /\ accounts'[result'.id].owner = result'.loader
          /\ accounts'[result'.id].lamports =
                (ACCOUNT_STORAGE_OVERHEAD + Len(result'.bytes)) * sysvars["Rent"].value
                    * EXEMPTION_THRESHOLD
          /\ result'.id \in DOMAIN programs'
          /\ programs'[result'.id].deployment_slot = sysvars["Clock"].value]_vars


\* C27: a load whose image the loader rejects fails with ProgramLoadFailed,
\* and a load that fails modifies neither the base store nor the program
\* cache: it leaves no account record without its cache entry and no cache
\* entry without its record.
C27_RejectedImageChangesNothing ==
    [][result'.op = "load_program" =>
          /\ ~ElfLoads(result'.bytes) =>
                (result'.err = "ProgramLoadFailed" /\ phase' = "panicked")
          /\ result'.err # "" =>
                /\ accounts' = accounts
                /\ programs' = programs
                /\ sysvars' = sysvars]_vars

\* C27 witness: an image that does not start with the ELF magic was rejected
\* under A, and neither store knows A.
C27_Witness ==
    /\ phase = "panicked"
    /\ result.op = "load_program"
    /\ result.id = "A"
    /\ result.bytes = <<1, 127>>
    /\ result.err = "ProgramLoadFailed"
    /\ "A" \notin DOMAIN accounts
    /\ "A" \notin DOMAIN programs

\* C28: load_builtins registers a builtin in the program cache and writes an
\* executable account with balance 1 owned by the native loader for every
\* builtin whose enabling feature is absent or active in the given feature
\* set, and only for those: a builtin whose feature is inactive gets neither a
\* cache entry nor an account from the call.
C28_BuiltinsLoadedIffEnabled ==
    [][result'.op = "load_builtins" =>
          \A n \in 1..Len(Builtins) :
              LET b == Builtins[n] IN
              IF b.enable_feature_id = None \/ b.enable_feature_id[1] \in result'.feature_set
              THEN /\ b.program_id \in DOMAIN programs'
                   /\ programs'[b.program_id].loader = NativeLoader
                   /\ b.program_id \in DOMAIN accounts'
                   /\ accounts'[b.program_id] = Account(1, <<>>, NativeLoader, TRUE, 0)
              ELSE /\ (b.program_id \in DOMAIN programs') = (b.program_id \in DOMAIN programs)
                   /\ (b.program_id \in DOMAIN accounts') = (b.program_id \in DOMAIN accounts)]_vars

\* C28 witness: load_builtins with no feature active loaded the builtin that
\* has no enabling feature and left out the one that has.
C28_Witness ==
    /\ result.op = "load_builtins"
    /\ result.feature_set = {}
    /\ "P" \in DOMAIN programs
    /\ accounts["P"].lamports = 1
    /\ "G" \notin DOMAIN programs
    /\ "G" \notin DOMAIN accounts

\* C29: whenever load_program_from_environment(name, id) returns Ok(()), the
\* base store holds an executable program account under id.
C29_OkMeansLoaded ==
    (result.op = "load_program_from_environment" /\ result.ret = "Ok") =>
        /\ result.id \in DOMAIN accounts
        /\ accounts[result.id].executable


----------------------------------------------------------------------------
(* Airdrops of any 64-bit amount *)

NextAirdrop ==
    \/ \E a \in InputRecords : SetAccountCall("A", a)
    \/ \E a \in InputRecords : ScenarioInsertCall("B", a)
    \/ \E id \in Pubkeys, amount \in 0..U64Max, wraps \in BOOLEAN :
          AirdropU64Call(id, amount, wraps)
    \/ \E id \in Pubkeys : AccountMaybeCall(id)

SpecAirdrop == Init /\ [][NextAirdrop]_vars

\* C30: after airdrop(id, amount) the balance that id resolves to is the
\* balance it resolved to before the call, 0 if it was unresolved, plus amount,
\* without wrap-around, for every identifier and every 64-bit amount.
C30_AirdropAddsAmount ==
    [][result'.op = "airdrop" =>
          LET before == account_maybe(CurDb, result'.id)
              after == account_maybe(Db(accounts', scenario', sysvars', programs'), result'.id)
          IN  /\ result'.err = ""
              /\ after # None
              /\ after[1].lamports =
                    (IF before = None THEN 0 ELSE before[1].lamports) + result'.amount]_vars


----------------------------------------------------------------------------
(* Instructions that reference the instructions sysvar *)

InitSysvarIxn ==
    \E cfg \in Configs, i \in SysvarIxnInstructions :
        /\ accounts = NewDb.accounts
        /\ scenario = NewDb.scenario
        /\ sysvars = NewDb.sysvars
        /\ programs = NewDb.programs
        /\ config = cfg
        /\ files = [p \in {ScenarioPath} |-> None]
        /\ rpcCalls = NoRpcCalls
        /\ phase = "live"
        /\ ixn = i
        /\ result = NoResult

NextSysvarIxn ==
    \/ \E a \in InputRecords : SetAccountCall("A", a)
    \/ ProcessInstruction(ixn)
    \/ \E id \in {InstructionsSysvar, "A"} : AccountMaybeCall(id)

SpecSysvarIxn == InitSysvarIxn /\ [][NextSysvarIxn]_vars

\* C31: in a fresh session with the default config and no remote source,
\* process_instruction on an instruction whose only reference is the
\* instructions sysvar resolves its accounts and completes without a
\* resolution failure, although the identifier was never written to the store.
C31_InstructionsSysvarResolves ==
    (/\ result.op = "process_instruction"
     /\ config = DefaultConfig
     /\ ixn.accounts = <<Meta(InstructionsSysvar, FALSE, FALSE)>>
     /\ accounts = NewDb.accounts
     /\ scenario = NewDb.scenario) =>
        /\ result.err = ""
        /\ phase = "live"


\* C32: when a scenario file whose entries all carry an owner and a well-formed
\* hex string is loaded, the load does not fail, and every entry gets balance
\* 0, executable false and epoch 0 for each of these fields it omits, the
\* file's value for each it carries, and the hex-decoded data.
C32_AbsentNumericFieldsDefault ==
    [][(/\ result'.op = "load_scenario"
        /\ files[ScenarioPath] # None
        /\ \A k \in DOMAIN files[ScenarioPath][1] :
              LET e == files[ScenarioPath][1][k] IN
              /\ {"data", "owner"} \subseteq DOMAIN e
              /\ Len(e.data) % 2 = 0
              /\ \A n \in 1..Len(e.data) : e.data[n] \in 0..15) =>
          /\ result'.err = ""
          /\ DOMAIN scenario'.data = DOMAIN files[ScenarioPath][1]
          /\ \A k \in DOMAIN files[ScenarioPath][1] :
                LET e == files[ScenarioPath][1][k]
                    a == scenario'.data[k]
                IN  /\ a.lamports = (IF "lamports" \in DOMAIN e THEN e.lamports ELSE 0)
                    /\ a.executable = (IF "executable" \in DOMAIN e THEN e.executable ELSE FALSE)
                    /\ a.rent_epoch = (IF "rent_epoch" \in DOMAIN e THEN e.rent_epoch ELSE 0)
                    /\ a.owner = e.owner
                    /\ Len(a.data) * 2 = Len(e.data)
                    /\ \A n \in 1..Len(a.data) :
                          a.data[n] = 16 * e.data[2 * n - 1] + e.data[2 * n]]_vars

\* C32 witness: a file whose one entry has only data and owner was loaded, and
\* the overlay holds it with balance 0, not executable, epoch 0 and one byte
\* of data.
C32_Witness ==
    /\ result.op = "load_scenario"
    /\ result.err = ""
    /\ files[ScenarioPath] = Some([k \in {"A"} |-> [data |-> <<0, 2>>, owner |-> DefaultPubkey]])
    /\ scenario.data = [k \in {"A"} |-> Account(0, <<2>>, DefaultPubkey, FALSE, 0)]
    /\ ~scenario.dirty


----------------------------------------------------------------------------
(* sysvar.rs: the typed fields of a default-constructed cache *)

MAX_ENTRIES == 3        \* entries of the slot-hash buffer (512, scaled down)
MaxSlot == 2            \* largest slot and timestamp a session warps to

\* Clock::default()
DefaultClock == [slot |-> 0, epoch |-> 0, unix_timestamp |-> 0]

\* Hash::default() and StakeHistoryEntry::default()
DefaultHash == "1111"
DefaultStakeHistoryEntry == [effective |-> 0, activating |-> 0, deactivating |-> 0]

\* slice::sort_by(|(a, _), (b, _)| b.cmp(a)): a stable sort, largest slot first.
RECURSIVE SortBySlotDescending(_)
SortBySlotDescending(v) ==
    IF v = <<>> THEN <<>>
    ELSE LET rest == SortBySlotDescending(Tail(v))
             n == Cardinality({p \in 1..Len(rest) : rest[p][1] > v[1][1]})
         IN  SubSeq(rest, 1, n) \o <<v[1]>> \o SubSeq(rest, n + 1, Len(rest))

\* SlotHashes::new
SlotHashesNew(v) == SortBySlotDescending(v)

\* A variant of StakeHistory::add that drops the entry.
StakeHistoryAdd_Dropped(history, epoch, entry) == history

\* StakeHistory::add: replaces the entry of the epoch or inserts it, newest
\* epoch first, and truncates to MAX_ENTRIES.
StakeHistoryAdd(history, epoch, entry) ==
    LET at == {p \in 1..Len(history) : history[p][1] = epoch}
        n == Cardinality({p \in 1..Len(history) : history[p][1] > epoch})
        added == IF at # {}
                 THEN [history EXCEPT ![CHOOSE p \in at : TRUE] = <<epoch, entry>>]
                 ELSE SubSeq(history, 1, n) \o <<<<epoch, entry>>>>
                      \o SubSeq(history, n + 1, Len(history))
    IN  SubSeq(added, 1, IF Len(added) < MAX_ENTRIES THEN Len(added) ELSE MAX_ENTRIES)

\* impl Default for Sysvars: the clock, the slot hashes and the stake history.
SysvarsDefault ==
    LET clock == DefaultClock
        default_slot_hashes ==
            [[i \in 1..MAX_ENTRIES |-> <<0, DefaultHash>>] EXCEPT ![1] = <<clock.slot, DefaultHash>>]
    IN  [clock |-> clock,
         slot_hashes |-> SlotHashesNew(default_slot_hashes),
         stake_history |-> StakeHistoryAdd(<<>>, clock.epoch, DefaultStakeHistoryEntry)]

InitDefaults ==
    /\ sysvars = SysvarsDefault
    /\ result = [op |-> "sysvars_default"]
    /\ phase = "live"
    /\ accounts = <<>>
    /\ scenario = <<>>
    /\ programs = <<>>
    /\ config = <<>>
    /\ files = <<>>
    /\ rpcCalls = <<>>
    /\ ixn = NoInstruction

\* Sysvars::default(), again
SysvarsDefaultCall ==
    /\ sysvars' = SysvarsDefault
    /\ result' = [op |-> "sysvars_default"]
    /\ UNCHANGED <<accounts, scenario, programs, config, files, rpcCalls, phase, ixn>>

\* Sysvars::warp
WarpCall(slot, timestamp) ==
    /\ sysvars' = [sysvars EXCEPT !.clock.slot = slot, !.clock.unix_timestamp = timestamp]
    /\ result' = [op |-> "warp", slot |-> slot, timestamp |-> timestamp]
    /\ UNCHANGED <<accounts, scenario, programs, config, files, rpcCalls, phase, ixn>>

\* Sysvars::set(SlotHashes::id(), account) with data that decodes to v
SetSlotHashesCall(v) ==
    /\ sysvars' = [sysvars EXCEPT !.slot_hashes = v]
    /\ result' = [op |-> "set_slot_hashes"]
    /\ UNCHANGED <<accounts, scenario, programs, config, files, rpcCalls, phase, ixn>>

\* Sysvars::set(StakeHistory::id(), account) with data that decodes to h
SetStakeHistoryCall(h) ==
    /\ sysvars' = [sysvars EXCEPT !.stake_history = h]
    /\ result' = [op |-> "set_stake_history"]
    /\ UNCHANGED <<accounts, scenario, programs, config, files, rpcCalls, phase, ixn>>

NextDefaults ==
    \/ SysvarsDefaultCall
    \/ \E slot \in 0..MaxSlot, timestamp \in 0..MaxSlot : WarpCall(slot, timestamp)
    \/ \E v \in SeqsUpTo({<<s, DefaultHash>> : s \in 0..MaxSlot}, 2) : SetSlotHashesCall(v)
    \/ \E h \in SeqsUpTo({<<e, DefaultStakeHistoryEntry>> : e \in 0..1}, 2) :
          SetStakeHistoryCall(h)

SpecDefaults == InitDefaults /\ [][NextDefaults]_vars

\* C33: in a default-constructed system-variable cache the first slot-hash
\* entry's slot is the default clock's slot, and the stake history holds
\* exactly one entry, default-valued, for the default clock's epoch.
C33_DefaultsConsistent ==
    result.op = "sysvars_default" =>
        /\ sysvars.clock = [slot |-> 0, epoch |-> 0, unix_timestamp |-> 0]
        /\ sysvars.slot_hashes[1][1] = sysvars.clock.slot
        /\ Len(sysvars.stake_history) = 1
        /\ sysvars.stake_history[1][1] = sysvars.clock.epoch
        /\ sysvars.stake_history[1][2] = [effective |-> 0, activating |-> 0, deactivating |-> 0]

\* C33 witness: a cache that was warped and overwritten was constructed anew
\* and holds the full slot-hash buffer and the one stake-history entry.
C33_Witness ==
    /\ result.op = "sysvars_default"
    /\ Len(sysvars.slot_hashes) = MAX_ENTRIES
    /\ sysvars.slot_hashes[1] = <<0, DefaultHash>>
    /\ sysvars.stake_history = <<<<0, DefaultStakeHistoryEntry>>>>


----------------------------------------------------------------------------
(* scenario.rs: the dirty flag of one overlay instance *)

\* The operations that assign a new Scenario to the session.
ReplacingOps == {"load_scenario", "rpc_only", "new"}

\* C34: within one overlay instance the dirty flag never goes from true back
\* to false, and as long as it is false the entries are the ones the overlay
\* held before the step, hence the ones loaded at construction: only insert
\* and a successful remote fetch change the entries, and both set the flag.
C34_DirtyTracksChanges ==
    [][result'.op \notin ReplacingOps =>
          /\ scenario.dirty => scenario'.dirty
          /\ ~scenario'.dirty => scenario'.data = scenario.data
          /\ scenario'.data # scenario.data =>
                /\ scenario'.dirty
                /\ result'.op \in {"scenario_insert", "account"}]_vars

\* C34 witness: an overlay loaded from a file with an entry was read and is
\* still clean with the entries it was constructed with.
C34_Witness ==
    /\ result.op = "account"
    /\ result.err = ""
    /\ scenario.path # None
    /\ ~scenario.dirty
    /\ files[ScenarioPath] # None
    /\ scenario.data = DeserializeScenario(files[ScenarioPath][1])
    /\ "A" \in DOMAIN scenario.data


----------------------------------------------------------------------------
(* seashell.rs: load_scenario on a session that already loaded the scenario *)

\* C35: when load_scenario is called a second time with the same name, every
\* entry the replaced overlay held, flushed or not, is in the new overlay.
C35_ReloadKeepsEntries ==
    [][(/\ result'.op = "load_scenario"
        /\ result'.err = ""
        /\ scenario.path = Some(ScenarioPath)) =>
            \A id \in DOMAIN scenario.data :
                /\ id \in DOMAIN scenario'.data
                /\ scenario'.data[id] = scenario.data[id]]_vars


----------------------------------------------------------------------------
(* seashell.rs: account(&self) called from two threads (Seashell is Sync) *)

Threads == {1, 2}

\* The overlays the shared session starts with.
SharedScenarios ==
    {DefaultScenario, rpc_only,
     from_file_with_rpc([p \in {ScenarioPath} |-> None], ScenarioPath)}

\* phase is each thread's position in account(); result is what each thread's
\* call was given and returned.
InitThreads ==
    /\ accounts = NewDb.accounts
    /\ scenario \in SharedScenarios
    /\ sysvars = NewDb.sysvars
    /\ programs = NewDb.programs
    /\ config = DefaultConfig
    /\ files = [p \in {ScenarioPath} |-> None]
    /\ rpcCalls = NoRpcCalls
    /\ phase = [t \in Threads |-> "idle"]
    /\ ixn = NoInstruction
    /\ result = [t \in Threads |-> [id |-> "", out |-> None, err |-> ""]]

\* account(): self.account_maybe(pubkey), under the read locks it takes.
ThreadLookup(t, id) ==
    /\ phase[t] = "idle"
    /\ \E m \in {account_maybe(CurDb, id)} :
       /\ phase' = [phase EXCEPT ![t] = IF m = None THEN "missed" ELSE "done"]
       /\ result' = [result EXCEPT ![t] = [id |-> id, out |-> m, err |-> ""]]
    /\ UNCHANGED <<accounts, scenario, sysvars, programs, config, files, rpcCalls, ixn>>

\* fetch_from_rpc up to rpc_client.get_account(pubkey): the two expect()s
\* panic the calling thread.
ThreadGetAccount(t) ==
    /\ phase[t] = "missed"
    /\ LET id == result[t].id
       IN  IF ~scenario.rpc_client
           THEN /\ phase' = [phase EXCEPT ![t] = "panicked"]
                /\ result' = [result EXCEPT ![t].err = "AccountNotFound"]
                /\ UNCHANGED rpcCalls
           ELSE /\ rpcCalls' = [rpcCalls EXCEPT ![id] = @ + 1]
                /\ IF id \notin DOMAIN RemoteAccounts
                   THEN /\ phase' = [phase EXCEPT ![t] = "panicked"]
                        /\ result' = [result EXCEPT ![t].err = "RemoteFetchFailed"]
                   ELSE /\ phase' = [phase EXCEPT ![t] = "fetched"]
                        /\ result' = [result EXCEPT ![t].out = Some(RemoteAccounts[id])]
    /\ UNCHANGED <<accounts, scenario, sysvars, programs, config, files, ixn>>

\* self.dirty.set(true): an unsynchronized store to the Cell; racing stores
\* all write true.
ThreadSetDirty(t) ==
    /\ phase[t] = "fetched"
    /\ scenario' = [scenario EXCEPT !.dirty = TRUE]
    /\ phase' = [phase EXCEPT ![t] = "marked"]
    /\ UNCHANGED <<accounts, sysvars, programs, config, files, rpcCalls, ixn, result>>

\* self.data.write().insert(*pubkey, account_shared.clone()), under the write lock
ThreadInsert(t) ==
    /\ phase[t] = "marked"
    /\ scenario' = [scenario EXCEPT !.data = MapInsert(@, result[t].id, result[t].out[1])]
    /\ phase' = [phase EXCEPT ![t] = "done"]
    /\ UNCHANGED <<accounts, sysvars, programs, config, files, rpcCalls, ixn, result>>

NextThreads ==
    \E t \in Threads :
        \/ \E id \in {"A", "B", "Clock"} : ThreadLookup(t, id)
        \/ ThreadGetAccount(t)
        \/ ThreadSetDirty(t)
        \/ ThreadInsert(t)

SpecThreads == InitThreads /\ [][NextThreads]_vars

\* C36: when two threads call account(id) concurrently for an id absent from
\* every layer, the remote source is fetched at most once and the overlay ends
\* dirty with exactly one entry.
C36_ConcurrentFetchOnce ==
    (/\ \A t \in Threads : phase[t] = "done" /\ result[t].id = "B"
     /\ scenario.rpc_client) =>
        /\ rpcCalls["B"] <= 1
        /\ scenario.dirty
        /\ DOMAIN scenario.data = {"B"}


----------------------------------------------------------------------------
(* accounts_db.rs: accounts_for_instruction and the remote source *)

\* Instructions whose program is a builtin (P), an id only the remote source
\* knows (B) or an id nobody knows (A).
RemoteMetas == {Meta("A", FALSE, TRUE), Meta("B", FALSE, TRUE)}

RemoteProgramInstructions ==
    {Instruction(p, refs) : p \in {"P", "A", "B"}, refs \in SeqsUpTo(RemoteMetas, MaxIxnRefs)}

NextResolveRemote ==
    \/ ScenarioInsertCall("A", OverlayRecord)
    \/ UseRpcOnly
    \/ \E allow \in BOOLEAN, i \in RemoteProgramInstructions :
          AccountsForInstructionCall(allow, i)

SpecResolveRemote == InitIxn /\ [][NextResolveRemote]_vars

\* C37: with allow_uninitialized_accounts true, accounts_for_instruction asks
\* the remote source for no reference, only possibly for the program id: the
\* call counts and the overlay change at most under the program id, not at all
\* when the program id is found locally, and a reference no layer holds
\* resolves to the zeroed record, whether or not a remote source is configured.
C37_AllowedNeverFetchesReferences ==
    [][(result'.op = "accounts_for_instruction" /\ result'.allow) =>
          LET pid == ixn'.program_id IN
          /\ \A k \in Pubkeys \ {pid} :
                /\ rpcCalls'[k] = rpcCalls[k]
                /\ k \in DOMAIN scenario'.data <=> k \in DOMAIN scenario.data
                /\ k \in DOMAIN scenario.data => scenario'.data[k] = scenario.data[k]
          /\ rpcCalls'[pid] \in {rpcCalls[pid], rpcCalls[pid] + 1}
          /\ scenario' # scenario => rpcCalls'[pid] = rpcCalls[pid] + 1
          /\ account_maybe(CurDb, pid) # None => scenario' = scenario /\ rpcCalls' = rpcCalls
          /\ result'.err = "" =>
                \A p \in 1..Len(ixn'.accounts) :
                    (/\ ixn'.accounts[p].pubkey # pid
                     /\ account_maybe(CurDb, ixn'.accounts[p].pubkey) = None) =>
                        result'.out[p + 1][2] = Account(0, <<>>, DefaultPubkey, FALSE, 0)]_vars

\* C37 witness: with a remote source that knows B configured, a reference to
\* B resolved to the zeroed record without a call, and the overlay is clean.
C37_Witness ==
    /\ result.op = "accounts_for_instruction"
    /\ result.allow
    /\ result.err = ""
    /\ scenario.rpc_client
    /\ ixn.program_id = "P"
    /\ rpcCalls["B"] = 0
    /\ ~scenario.dirty
    /\ scenario.data = EmptyMap
    /\ \E p \in 1..Len(ixn.accounts) :
          /\ ixn.accounts[p].pubkey = "B"
          /\ result.out[p + 1] = <<"B", Account(0, <<>>, DefaultPubkey, FALSE, 0)>>


----------------------------------------------------------------------------
(* compile.rs: instructions that reference more than 255 identifiers *)

WidePrefix == 254       \* distinct identifiers every wide instruction starts with
MaxWideTail == 3        \* references that follow them

WideKey(n) == "K" \o ToString(n)

\* The references after the first WidePrefix ones: two more new identifiers,
\* the program and an identifier already referenced.
WideTailMetas ==
    {Meta(k, FALSE, TRUE) : k \in {WideKey(WidePrefix + 1), WideKey(WidePrefix + 2), WideKey(1), "P"}}

WideInstructions ==
    {Instruction("P", [n \in 1..WidePrefix |-> Meta(WideKey(n), FALSE, FALSE)] \o tail) :
        tail \in SeqsUpTo(WideTailMetas, MaxWideTail)}

InitCompileWide ==
    /\ ixn \in WideInstructions
    /\ phase = "pure"
    /\ result = NoResult
    /\ accounts = <<>>
    /\ scenario = <<>>
    /\ sysvars = <<>>
    /\ programs = <<>>
    /\ config = <<>>
    /\ files = <<>>
    /\ rpcCalls = <<>>

SpecCompileWide == InitCompileWide /\ [][NextCompile]_vars

\* C38: for any number of distinct identifiers, more than 255 included, two
\* references receive the same index_in_transaction exactly when they name the
\* same identifier, and no reference to an identifier other than the program
\* receives index 0.
C38_IndicesInjectivePast255 ==
    result.op = "compile" =>
        /\ \A p, q \in 1..Len(ixn.accounts) :
              (result.value[p].index_in_transaction = result.value[q].index_in_transaction)
                  <=> (ixn.accounts[p].pubkey = ixn.accounts[q].pubkey)
        /\ \A p \in 1..Len(ixn.accounts) :
              ixn.accounts[p].pubkey # ixn.program_id =>
                  result.value[p].index_in_transaction # 0


----------------------------------------------------------------------------
(* seashell.rs: the deduplication map of process_instruction *)

U8Max == 255
MAX_ACCOUNTS_PER_TRANSACTION == 256

\* The loop body: the slot of the entry's index_in_transaction takes idx as u8
\* if it still holds u8::MAX.
DedupStep(dedup_map, instruction_accounts, idx) ==
    LET slot == instruction_accounts[idx + 1].index_in_transaction + 1 IN
    IF dedup_map[slot] = U8Max THEN [dedup_map EXCEPT ![slot] = idx % U8Mod]
    ELSE dedup_map

\* dedup_map after the loop body ran for the entries lo..hi (0-based), in
\* order; the range is split in halves so that a long instruction does not
\* nest deeply.
RECURSIVE DedupMapOver(_, _, _, _)
DedupMapOver(dedup_map, instruction_accounts, lo, hi) ==
    IF lo > hi THEN dedup_map
    ELSE IF lo = hi THEN DedupStep(dedup_map, instruction_accounts, lo)
    ELSE The({DedupMapOver(m, instruction_accounts, ((lo + hi) \div 2) + 1, hi) :
                m \in {DedupMapOver(dedup_map, instruction_accounts, lo, (lo + hi) \div 2)}})

\* vec![u8::MAX; MAX_ACCOUNTS_PER_TRANSACTION] after the loop over the
\* compiled entries.
DedupMap(instruction_accounts) ==
    DedupMapOver([s \in 1..MAX_ACCOUNTS_PER_TRANSACTION |-> U8Max], instruction_accounts,
                 0, Len(instruction_accounts) - 1)

DedupPrefix == 255      \* references to one identifier a long instruction starts with
MaxDedupTail == 3       \* references that follow them

DedupTailMetas == {Meta(k, FALSE, TRUE) : k \in {WideKey(1), WideKey(2), WideKey(3), "P"}}

\* Short instructions, and long ones that reference few identifiers.
DedupInstructions ==
    {Instruction("P", prefix \o tail) :
        prefix \in {<<>>, [n \in 1..DedupPrefix |-> Meta(WideKey(1), FALSE, FALSE)]},
        tail \in SeqsUpTo(DedupTailMetas, MaxDedupTail)}

InitDedup ==
    /\ ixn \in DedupInstructions
    /\ phase = "pure"
    /\ result = NoResult
    /\ accounts = <<>>
    /\ scenario = <<>>
    /\ sysvars = <<>>
    /\ programs = <<>>
    /\ config = <<>>
    /\ files = <<>>
    /\ rpcCalls = <<>>

\* process_instruction from the compiled entries to the finished dedup_map
BuildDedupMap ==
    /\ result.op = "compile"
    /\ result' = [op |-> "dedup_map", value |-> result.value,
                  dedup_map |-> DedupMap(result.value)]
    /\ UNCHANGED <<accounts, scenario, sysvars, programs, config, files, rpcCalls, phase, ixn>>

NextDedup == Compile \/ BuildDedupMap

SpecDedup == InitDedup /\ [][NextDedup]_vars

\* C39: once the deduplication map is built, the slot of every compiled
\* entry's index_in_transaction holds that entry's index_in_callee, and every
\* slot of an index the instruction does not reference holds the sentinel 255.
C39_DedupMapMatchesCallee ==
    result.op = "dedup_map" =>
        /\ \A p \in 1..Len(result.value) :
              result.dedup_map[result.value[p].index_in_transaction + 1] =
                  result.value[p].index_in_callee
        /\ \A s \in 0..(MAX_ACCOUNTS_PER_TRANSACTION - 1) :
              (\A p \in 1..Len(result.value) : result.value[p].index_in_transaction # s) =>
                  result.dedup_map[s + 1] = 255


----------------------------------------------------------------------------
(* accounts_db.rs, sysvar.rs: records written under a system variable's id *)

\* The records callers write: any balance, owner, flag and rent epoch.
SysvarWriteRecords ==
    {Account(l, d, o, e, r) : l \in 0..MaxLamports, d \in {<<>>, <<0>>, <<1>>},
                              o \in {SysvarOwner, DefaultPubkey}, e \in BOOLEAN, r \in 0..1}

NextSysvarWrite ==
    \/ \E id \in {"Clock", "EpochRewards", "A"}, a \in SysvarWriteRecords : SetAccountCall(id, a)
    \/ \E id \in {"Clock", "EpochRewards", "A"} : AccountMaybeCall(id)

SpecSysvarWrite == Init /\ [][NextSysvarWrite]_vars

\* C40: a write under a recognized system-variable id keeps only the record's
\* data: once set_account(id, r) has succeeded, account_maybe(id) returns a
\* record with balance 0, the system-variable owner and executable false,
\* whatever r's balance, owner and flags were, and the base map has no entry
\* that the write added.
C40_SysvarWriteKeepsOnlyData ==
    [][(/\ result'.op = "set_account"
        /\ result'.err = ""
        /\ is_sysvar(result'.id)) =>
          LET after == account_maybe(Db(accounts', scenario', sysvars', programs'), result'.id)
          IN  /\ after # None
              /\ after[1].lamports = 0
              /\ after[1].owner = SysvarOwner
              /\ after[1].executable = FALSE
              /\ accounts' = accounts
              /\ sysvars'[result'.id] = Deserialize(result'.id, result'.account.data)[1]]_vars

\* C40 witness: a funded, executable record owned by the default owner was
\* written under the clock's id, and the clock reads back with balance 0, the
\* system-variable owner and the written data.
C40_Witness ==
    /\ result.op = "set_account"
    /\ result.err = ""
    /\ result.id = "Clock"
    /\ result.account = Account(MaxLamports, <<1>>, DefaultPubkey, TRUE, 1)
    /\ account_maybe(CurDb, "Clock") = Some(Account(0, <<1>>, SysvarOwner, FALSE, 0))

====
